---- MODULE Spec2Model ----
(***************************************************************************)
(* The retrieval / reranking / generation pipeline of TUTOR-BACKEND:       *)
(*   src/src/services/reranking_service.py  (RerankingService)             *)
(*   src/src/rag/graph.py                   (the LangGraph stage nodes)    *)
(*   src/src/api/main.py                    (query_endpoint)               *)
(*   src/src/agents/internet_search_tools.py (search_internet)             *)
(*                                                                         *)
(* Scores are kept as integers in hundredths (0.9 is 90), so that          *)
(* 0.7*s + 0.3*t is exact on the multiples of 0.1 the model draws.         *)
(* Python's None and an absent dict key are both written NoValue.          *)
(***************************************************************************)
EXTENDS Bags, Integers, Sequences, FiniteSets, TLC

\* ---------------------------------------------------------------- bounds
MaxHits == 2          \* longest candidate list (retrieval asks top_k=5)
MaxEntries == 2       \* longest array the reranking LLM answers with

\* ------------------------------------------------------------- constants
NoValue == -1         \* None / key absent
NonNumeric == -2      \* a relevance_score such as "high": float() raises
LLMScores == {20, 80} \* numeric scores the LLM may give (0.2, 0.8)
LLMPositions == 1..(MaxHits + 1)   \* MaxHits+1 never names a candidate
Strategies == {"semantic_relevance", "query_intent", "hybrid", "other"}
Intents == {"factual", "how_to", "comparison", "explanation", "examples", "research"}
NoContentText == "Sorry, I couldn't find relevant content to answer this question."

Max(a, b) == IF a >= b THEN a ELSE b

\* ------------------------------------------------- the LLM's answer text
\* A response text is a sequence of tokens; brackets, prose and JSON values
\* are the tokens the parser of the service tells apart.
Tok(k) == [kind |-> k, position |-> 0, score |-> 0]
Obj(p, s) == [kind |-> "obj", position |-> p, score |-> s]

\* Obj(1, NoValue) is an entry whose relevance_score is null or missing
Elements == {Obj(p, s) : p \in LLMPositions, s \in LLMScores \cup {NonNumeric}}
              \cup {Obj(1, NoValue), Tok("str")}

Bodies == UNION {[1..n -> Elements] : n \in 0..MaxEntries}

\* the texts the model lets the LLM answer with: a clean array, an array
\* wrapped in prose, a truncated array, prose only, nothing, and the JSON
\* values {} and 7 that are no array
ResponseTexts ==
    {<<Tok("lb")>> \o b \o <<Tok("rb")>> : b \in Bodies}
    \cup {<<Tok("prose"), Tok("lb")>> \o b \o <<Tok("rb"), Tok("prose")>> : b \in Bodies}
    \cup {<<Tok("lb")>> \o b : b \in Bodies}
    \cup {<<Tok("prose")>>, <<>>, <<Tok("emptyobj")>>, <<Tok("num")>>,
          <<Tok("rb"), Tok("prose"), Tok("lb")>>}

\* an LLM call either raises or returns a text
LLMOutcomes == {[raises |-> TRUE, text |-> <<>>]}
                 \cup {[raises |-> FALSE, text |-> t] : t \in ResponseTexts}

\* json.loads on a token sequence
JsonLoads(t) ==
    IF Len(t) = 0 THEN [ok |-> FALSE, kind |-> "none", items |-> <<>>]
    ELSE IF Len(t) >= 2 /\ t[1].kind = "lb" /\ t[Len(t)].kind = "rb"
            /\ \A i \in 2..(Len(t) - 1) : t[i].kind \in {"obj", "str"}
         THEN [ok |-> TRUE, kind |-> "array", items |-> SubSeq(t, 2, Len(t) - 1)]
    ELSE IF Len(t) = 1 /\ t[1].kind \in {"emptyobj", "num", "obj", "str"}
         THEN [ok |-> TRUE, kind |-> t[1].kind, items |-> <<>>]
    ELSE [ok |-> FALSE, kind |-> "none", items |-> <<>>]

\* first "[" to last "]" when both occur, the whole text otherwise
ExtractJson(text) ==
    LET lbs == {i \in 1..Len(text) : text[i].kind = "lb"}
        rbs == {i \in 1..Len(text) : text[i].kind = "rb"}
    IN IF lbs # {} /\ rbs # {}
       THEN LET start_idx == CHOOSE i \in lbs : \A j \in lbs : i <= j
                end_idx == CHOOSE i \in rbs : \A j \in rbs : i >= j
            IN JsonLoads(SubSeq(text, start_idx, end_idx))
       ELSE JsonLoads(text)

\* ------------------------------------------------------ candidate records
\* a dict handed to rerank_results / returned by it; relevance_score and
\* rerank_position are NoValue while the key is absent
Dict(t, p, sc, rp) == [title |-> t, position |-> p, relevance_score |-> sc, rerank_position |-> rp]

\* SearchResult(**result): the dataclass object built from an input dict
SearchResult(d) == [title |-> d.title, position |-> d.position, relevance_score |-> NoValue]

Indexes(objs) == [i \in 1..Len(objs) |-> i]

\* index of the first object whose position is p, 0 when there is none:
\* next((r for r in results if r.position == p), None)
FindByPosition(objs, list, p) ==
    LET m == {j \in 1..Len(list) : objs[list[j]].position = p}
    IN IF m = {} THEN 0 ELSE list[CHOOSE j \in m : \A k \in m : j <= k]

\* key=lambda x: x.relevance_score or 0.0
SortKey(o) == IF o.relevance_score = NoValue THEN 0 ELSE o.relevance_score

\* list.sort(key=..., reverse=True): descending and stable
RECURSIVE InsertDesc(_, _, _)
InsertDesc(objs, sorted, x) ==
    IF sorted = <<>> THEN <<x>>
    ELSE IF SortKey(objs[Head(sorted)]) >= SortKey(objs[x])
         THEN <<Head(sorted)>> \o InsertDesc(objs, Tail(sorted), x)
         ELSE <<x>> \o sorted

RECURSIVE SortDescFrom(_, _, _)
SortDescFrom(objs, list, acc) ==
    IF list = <<>> THEN acc
    ELSE SortDescFrom(objs, Tail(list), InsertDesc(objs, acc, Head(list)))

\* mutant: the sort is left out
SortByScoreDesc_Unsorted(objs, list) == list

SortByScoreDesc(objs, list) == SortDescFrom(objs, list, <<>>)

\* mutant: an entry that names no candidate raises instead of being skipped
RECURSIVE ApplyReranking_RaiseOnUnmatched(_, _, _)
ApplyReranking_RaiseOnUnmatched(items, objs, reranked) ==
    IF items = <<>> THEN [raised |-> FALSE, objs |-> objs, list |-> reranked]
    ELSE LET item == Head(items)
             orig == FindByPosition(objs, Indexes(objs), item.position)
         IN IF item.kind # "obj" \/ orig = 0 \/ item.score = NonNumeric
            THEN [raised |-> TRUE, objs |-> objs, list |-> reranked]
            ELSE ApplyReranking_RaiseOnUnmatched(Tail(items),
                     [objs EXCEPT ![orig].relevance_score =
                          IF item.score = NoValue THEN 0 ELSE item.score],
                     Append(reranked, orig))

\* the loop "for item in reranking_data" of a rerank pass; it writes the
\* score into the shared SearchResult object and stops at the first raise
RECURSIVE ApplyReranking(_, _, _)
ApplyReranking(items, objs, reranked) ==
    IF items = <<>> THEN [raised |-> FALSE, objs |-> objs, list |-> reranked]
    ELSE LET item == Head(items)
             orig == FindByPosition(objs, Indexes(objs), item.position)
         IN IF item.kind # "obj"
            THEN [raised |-> TRUE, objs |-> objs, list |-> reranked]   \* item.get: AttributeError
            ELSE IF orig = 0
            THEN ApplyReranking(Tail(items), objs, reranked)
            ELSE IF item.score = NonNumeric
            THEN [raised |-> TRUE, objs |-> objs, list |-> reranked]   \* float(): ValueError
            ELSE ApplyReranking(Tail(items),
                     [objs EXCEPT ![orig].relevance_score =
                          IF item.score = NoValue THEN 0 ELSE item.score],
                     Append(reranked, orig))

\* mutant: a failed pass returns an empty list instead of the list it was given
RerankPass_EmptyOnFailure(outcome, objs) ==
    LET parsed == ExtractJson(outcome.text)
    IN IF outcome.raises \/ ~parsed.ok \/ parsed.kind # "array"
       THEN [failed |-> TRUE, objs |-> objs, list |-> <<>>]
       ELSE LET r == ApplyReranking(parsed.items, objs, <<>>)
            IN IF r.raised
               THEN [failed |-> TRUE, objs |-> r.objs, list |-> <<>>]
               ELSE [failed |-> FALSE, objs |-> r.objs, list |-> SortByScoreDesc(r.objs, r.list)]

\* the try block shared by _semantic_relevance_reranking and
\* _query_intent_reranking: invoke, extract, parse, apply, sort; any
\* exception returns the list it was given
RerankPass(outcome, objs) ==
    LET all == Indexes(objs)
        parsed == ExtractJson(outcome.text)
    IN IF outcome.raises \/ ~parsed.ok
       THEN [failed |-> TRUE, objs |-> objs, list |-> all]
       ELSE IF parsed.kind = "emptyobj"
       THEN [failed |-> FALSE, objs |-> objs, list |-> <<>>]      \* iterating {} yields nothing
       ELSE IF parsed.kind # "array"
       THEN [failed |-> TRUE, objs |-> objs, list |-> all]        \* TypeError / AttributeError
       ELSE LET r == ApplyReranking(parsed.items, objs, <<>>)
            IN IF r.raised
               THEN [failed |-> TRUE, objs |-> r.objs, list |-> all]
               ELSE [failed |-> FALSE, objs |-> r.objs, list |-> SortByScoreDesc(r.objs, r.list)]

\* (semantic_score * 0.7) + (intent_score * 0.3), in hundredths
WeightedCombination(s, t) == (7 * s + 3 * t) \div 10

\* the combining loop of _hybrid_reranking; a None score raises TypeError
RECURSIVE CombineFrom(_, _, _, _)
CombineFrom(k, objs, sem, int) ==
    IF k > Len(objs) THEN [raised |-> FALSE, objs |-> objs]
    ELSE LET si == FindByPosition(objs, sem, objs[k].position)
             ti == FindByPosition(objs, int, objs[k].position)
             semantic_score == IF si = 0 THEN 0 ELSE objs[si].relevance_score
             intent_score == IF ti = 0 THEN 0 ELSE objs[ti].relevance_score
         IN IF semantic_score = NoValue \/ intent_score = NoValue
            THEN [raised |-> TRUE, objs |-> objs]
            ELSE CombineFrom(k + 1,
                     [objs EXCEPT ![k].relevance_score =
                          WeightedCombination(semantic_score, intent_score)],
                     sem, int)

HybridCombine(objs, sem, int) ==
    LET c == CombineFrom(1, objs, sem, int)
    IN IF c.raised THEN [raised |-> TRUE, objs |-> c.objs, list |-> <<>>]
       ELSE [raised |-> FALSE, objs |-> c.objs,
             list |-> SortByScoreDesc(c.objs, Indexes(c.objs))]

\* max(0.1, 1.0 - (i * 0.1)) for the 0-based index i
FallbackScore(i) == Max(10, 100 - 10 * i)

\* mutant: the new rank is written where the original position belongs
ConvertBack_RankAsPosition(objs, reranked) ==
    [i \in 1..Len(reranked) |->
        Dict(objs[reranked[i]].title, i,
             IF objs[reranked[i]].relevance_score = NoValue
             THEN FallbackScore(i - 1) ELSE objs[reranked[i]].relevance_score,
             i)]

\* "Convert back to dict format" of rerank_results
ConvertBack(objs, reranked) ==
    [i \in 1..Len(reranked) |->
        Dict(objs[reranked[i]].title, objs[reranked[i]].position,
             IF objs[reranked[i]].relevance_score = NoValue
             THEN FallbackScore(i - 1) ELSE objs[reranked[i]].relevance_score,
             i)]

\* ------------------------------------------------------------- evaluation
\* The texts the evaluation reads are literal strings. Features tabulates,
\* for each, what the heuristics read off it: set(t.lower().split()),
\* len(t), the substrings of t.lower() among those the code looks for
\* ("x in t.lower()"), and t.lower().split('.').
Features(t) ==
    CASE t = "what is modi" ->
         [words |-> {"is", "modi", "what"},
          chars |-> 12,
          contains |-> {"", "is", "modi", "what"},
          phrases |-> {"what is modi"}]
      [] t = "is" ->
         [words |-> {"is"},
          chars |-> 2,
          contains |-> {"", "is"},
          phrases |-> {"is"}]
      [] t = "" ->
         [words |-> {},
          chars |-> 0,
          contains |-> {""},
          phrases |-> {""}]
      [] t = "government news" ->
         [words |-> {"government", "news"},
          chars |-> 15,
          contains |-> {"", "government", "news"},
          phrases |-> {"government news"}]
      [] t = "modi is the leader" ->
         [words |-> {"is", "leader", "modi", "the"},
          chars |-> 18,
          contains |-> {"", "is", "leader", "modi", "modi is the leader", "the"},
          phrases |-> {"modi is the leader"}]
      [] t = "the latest government news and information" ->
         [words |-> {"and", "government", "information", "latest", "news", "the"},
          chars |-> 42,
          contains |-> {"", "government", "information", "latest", "news", "the"},
          phrases |-> {"the latest government news and information"}]
      [] t = "the is" ->
         [words |-> {"is", "the"},
          chars |-> 6,
          contains |-> {"", "is", "the"},
          phrases |-> {"the is"}]
      [] t = "modi." ->
         [words |-> {"modi."},
          chars |-> 5,
          contains |-> {"", ".", "modi"},
          phrases |-> {"", "modi"}]
      [] t = "the leader of the government is modi, because of the vote." ->
         [words |-> {"because", "government", "is", "leader", "modi,", "of", "the", "vote."},
          chars |-> 58,
          contains |-> {"", ",", ".", "because", "government", "is", "leader", "modi", "the"},
          phrases |-> {"", "the leader of the government is modi, because of the vote"}]
      [] t = "the overall theme is the government, because modi is the leader. the context of the latest news is policy." ->
         [words |-> {"because", "context", "government,", "is", "latest", "leader.", "modi", "news", "of", "overall", "policy.", "the", "theme"},
          chars |-> 106,
          contains |-> {"", ",", ".", "because", "context", "government", "is", "latest", "leader", "modi", "modi is the leader", "news", "overall", "policy", "the", "theme"},
          phrases |-> {"", " the context of the latest news is policy", "the overall theme is the government, because modi is the leader"}]
      [] t = "the" ->
         [words |-> {"the"},
          chars |-> 3,
          contains |-> {"", "the"},
          phrases |-> {"the"}]
      [] t = "government information." ->
         [words |-> {"government", "information."},
          chars |-> 23,
          contains |-> {"", ".", "government", "government information", "government information.", "information", "information."},
          phrases |-> {"", "government information"}]
      [] t = "{'text': \"Sorry, I couldn't find relevant content to answer this question.\", 'model': None, 'metadata': {}}" ->
         [words |-> {"\"sorry,", "'metadata':", "'model':", "answer", "content", "couldn't", "find", "i", "none,", "question.\",", "relevant", "this", "to", "{'text':", "{}}"},
          chars |-> 107,
          contains |-> {"", ",", ".", "data", "is"},
          phrases |-> {"\", 'model': none, 'metadata': {}}", "{'text': \"sorry, i couldn't find relevant content to answer this question"}]
      [] t = "{}" ->
         [words |-> {"{}"},
          chars |-> 2,
          contains |-> {""},
          phrases |-> {"{}"}]

LongerThan3 == {"\"sorry,", "'metadata':", "'model':", "answer", "because", "content", "context", "couldn't", "find", "government", "government,", "information", "information.", "latest", "leader", "leader.", "modi", "modi,", "modi.", "news", "none,", "overall", "policy.", "question.\",", "relevant", "theme", "this", "vote.", "what", "{'text':"}
LongerThan4 == {"\"sorry,", "'metadata':", "'model':", "answer", "because", "content", "context", "couldn't", "government", "government,", "information", "information.", "latest", "leader", "leader.", "modi,", "modi.", "none,", "overall", "policy.", "question.\",", "relevant", "theme", "vote.", "{'text':"}
PrecisionTopicWords == {"affairs", "current", "latest", "news", "recent"}
PrecisionEntityWords == {"government", "india", "modi", "prime minister"}
PrecisionCategoryQueryWords == {"government", "leaders", "politics"}
PrecisionCategoryContextWords == {"government", "leaders", "minister", "politics", "prime"}
FaithfulnessStopWords == {"a", "an", "and", "are", "at", "be", "been", "but", "by", "can", "could", "did", "do", "does", "for", "had", "has", "have", "in", "is", "may", "might", "of", "on", "or", "should", "that", "the", "these", "this", "those", "to", "was", "were", "will", "with", "would"}
FaithfulnessAnalyticalWords == {"because", "definition", "example", "growth", "however", "identity", "influence", "multifaceted", "overarching", "policy", "spheres", "theme", "therefore"}
ThematicWords == {"connection", "overall", "pattern", "relationship", "theme"}
ContextualWords == {"background", "context", "meaning", "purpose", "significance"}
CorrectnessAnalyticalWords == {"because", "definition", "example", "however", "therefore"}
DirectAnswerWords == {"are", "can", "does", "is", "was", "were", "will"}
CorrectnessStopWords == {"a", "an", "and", "at", "but", "by", "for", "in", "of", "on", "or", "the", "to", "with"}
IntentWords == {"describe", "explain", "how", "what", "when", "where", "why"}
ContentWords == {"data", "details", "facts", "information"}
RelevancyTopicQueryWords == {"affairs", "current", "government", "news", "politics"}
RelevancyTopicContextWords == {"affairs", "current", "government", "minister", "news", "politics", "prime"}
RelevancyEntityQueryWords == {"government", "india", "modi"}
RelevancyEntityContextWords == {"government", "india", "minister", "modi", "prime"}

Words(t) == Features(t).words
Chars(t) == Features(t).chars
Contains(t, needle) == needle \in Features(t).contains
ContainsAny(t, needles) == Features(t).contains \cap needles # {}

Min(a, b) == IF a <= b THEN a ELSE b

RECURSIVE SumSeq(_)
SumSeq(s) == IF s = <<>> THEN 0 ELSE Head(s) + SumSeq(Tail(s))

\* the vector store: the question text of hit q
Corpus == <<"modi is the leader", "the latest government news and information", "the is">>

\* _extract_text_from_context of a hit: its "question"
ExtractTextFromContext(context_item) == Corpus[context_item.question]

\* overlap / len(...) capped at 1.0, in hundredths
OverlapRatio(a, b) ==
    IF a = {} THEN 0 ELSE Min(100, (100 * Cardinality(a \cap b)) \div Cardinality(a))

\* mutant: the bonus is added without the cap
ApplySemanticBonus_Uncapped(score, semantic_bonus) == score + semantic_bonus

\* min(1.0, score + semantic_bonus)
ApplySemanticBonus(score, semantic_bonus) == Min(100, score + semantic_bonus)

\* _calculate_context_precision_fallback
CalculateContextPrecisionFallback(query, context) ==
    IF context = <<>> THEN 0
    ELSE LET query_words == Words(query)
             query_important == query_words \cap LongerThan3
             Score(ctx) ==
                 LET ctx_text == ExtractTextFromContext(ctx)
                     ctx_words == Words(ctx_text)
                     score == IF query_important # {}
                              THEN OverlapRatio(query_important, ctx_words)
                              ELSE OverlapRatio(query_words, ctx_words)
                     semantic_bonus ==
                         (IF ContainsAny(ctx_text, PrecisionTopicWords) THEN 10 ELSE 0)
                         + (IF ContainsAny(query, PrecisionEntityWords)
                               /\ ContainsAny(ctx_text, PrecisionEntityWords) THEN 15 ELSE 0)
                         + (IF ContainsAny(query, PrecisionCategoryQueryWords)
                               /\ ContainsAny(ctx_text, PrecisionCategoryContextWords)
                            THEN 10 ELSE 0)
                 IN ApplySemanticBonus(score, semantic_bonus)
         IN SumSeq([i \in 1..Len(context) |-> Score(context[i])]) \div Len(context)

\* " ".join of the context texts: its words and its length
JoinedWords(context) == UNION {Words(ExtractTextFromContext(context[i])) : i \in 1..Len(context)}
JoinedChars(context) ==
    SumSeq([i \in 1..Len(context) |-> Chars(ExtractTextFromContext(context[i]))])
    + (Len(context) - 1)

\* _calculate_faithfulness_fallback
CalculateFaithfulnessFallback(context, response) ==
    IF context = <<>> \/ response = "" THEN 0
    ELSE LET context_meaningful == JoinedWords(context) \ FaithfulnessStopWords
             response_meaningful == Words(response) \ FaithfulnessStopWords
             base == OverlapRatio(context_meaningful, response_meaningful)
             long == IF Chars(response) > 100 THEN Min(100, base + 15) ELSE base
             analytical_count ==
                 Cardinality(Features(response).contains \cap FaithfulnessAnalyticalWords)
             analytical == IF analytical_count > 0
                           THEN Min(100, long + 5 * analytical_count) ELSE long
             thematic == IF ContainsAny(response, ThematicWords)
                         THEN Min(100, analytical + 10) ELSE analytical
             contextual == IF ContainsAny(response, ContextualWords)
                           THEN Min(100, thematic + 10) ELSE thematic
             context_length == JoinedChars(context)
             response_length == Chars(response)
         IN IF context_meaningful = {} THEN 0
            \* 0.5 <= response_length / context_length <= 3.0
            ELSE IF context_length <= 2 * response_length
                    /\ response_length <= 3 * context_length
            THEN Min(100, contextual + 10)
            ELSE contextual

\* the ground_truth argument: None, or a text
NoGroundTruth == [given |-> FALSE, text |-> ""]
GroundTruth(t) == [given |-> TRUE, text |-> t]

\* _calculate_answer_correctness_fallback
CalculateAnswerCorrectnessFallback(response, ground_truth) ==
    IF ~ground_truth.given \/ ground_truth.text = ""
    THEN LET length == IF Chars(response) > 100 THEN 30
                       ELSE IF Chars(response) > 50 THEN 20
                       ELSE IF Chars(response) > 20 THEN 10 ELSE 0
             structure == IF Contains(response, ".") /\ Contains(response, ",") THEN 20
                          ELSE IF Contains(response, ".") THEN 10 ELSE 0
             quality == IF ContainsAny(response, CorrectnessAnalyticalWords) THEN 20 ELSE 0
             direct == IF ContainsAny(response, DirectAnswerWords) THEN 10 ELSE 0
         IN Min(100, length + structure + quality + direct)
    ELSE LET truth == ground_truth.text
             response_meaningful == Words(response) \ CorrectnessStopWords
             truth_meaningful == Words(truth) \ CorrectnessStopWords
             base_score == OverlapRatio(truth_meaningful, response_meaningful)
             phrase == IF Contains(response, truth) THEN Min(100, base_score + 20)
                       ELSE IF \E p \in Features(truth).phrases : Contains(response, p)
                       THEN Min(100, base_score + 10)
                       ELSE base_score
             key_concepts == truth_meaningful \cap LongerThan4
             concept_matches == Cardinality({c \in key_concepts : Contains(response, c)})
             concept_bonus == Min(20, (concept_matches * 20) \div Cardinality(key_concepts))
         IN IF truth_meaningful = {} THEN 0
            ELSE IF key_concepts # {} /\ concept_matches > 0
            THEN Min(100, phrase + concept_bonus)
            ELSE phrase

\* position_weight = 1.0 / (i + 1) for the 0-based index i
PositionWeight(i) == 100 \div (i + 1)

\* _calculate_context_relevancy_fallback
CalculateContextRelevancyFallback(query, context) ==
    IF context = <<>> THEN 0
    ELSE LET query_words == Words(query)
             important == query_words \cap LongerThan3
             query_important == IF important = {} THEN query_words ELSE important
             Relevance(ctx) ==
                 LET ctx_text == ExtractTextFromContext(ctx)
                     relevance == OverlapRatio(query_important, Words(ctx_text))
                     semantic_bonus ==
                         (IF ContainsAny(query, IntentWords)
                               /\ ContainsAny(ctx_text, ContentWords) THEN 10 ELSE 0)
                         + (IF ContainsAny(query, RelevancyTopicQueryWords)
                               /\ ContainsAny(ctx_text, RelevancyTopicContextWords)
                            THEN 10 ELSE 0)
                         + (IF ContainsAny(query, RelevancyEntityQueryWords)
                               /\ ContainsAny(ctx_text, RelevancyEntityContextWords)
                            THEN 15 ELSE 0)
                 IN ApplySemanticBonus(relevance, semantic_bonus)
             total_score == SumSeq([i \in 1..Len(context) |->
                                (Relevance(context[i]) * PositionWeight(i - 1)) \div 100])
             max_possible_score == SumSeq([i \in 1..Len(context) |-> PositionWeight(i - 1)])
         IN (100 * total_score) \div max_possible_score

\* RAGASMetrics, with the method and the error of its metadata
Metrics(cp, f, ac, cr, overall, method, error) ==
    [raised |-> FALSE, context_precision |-> cp, faithfulness |-> f,
     answer_correctness |-> ac, context_relevancy |-> cr, overall_score |-> overall,
     evaluation_method |-> method, error |-> error]

\* _evaluate_with_fallback
EvaluateWithFallback(query, context, response, ground_truth) ==
    LET context_precision == CalculateContextPrecisionFallback(query, context)
        faithfulness == CalculateFaithfulnessFallback(context, response)
        answer_correctness == CalculateAnswerCorrectnessFallback(response, ground_truth)
        context_relevancy == CalculateContextRelevancyFallback(query, context)
    IN Metrics(context_precision, faithfulness, answer_correctness, context_relevancy,
               (context_precision + faithfulness + answer_correctness + context_relevancy)
                   \div 4,
               "fallback_heuristics", "")

\* what the RAGAS library may report for the four metrics
RagasResults ==
    {[context_precision |-> 50, faithfulness |-> 100, answer_correctness |-> 0,
      context_relevancy |-> 50]}

\* _evaluate_with_ragas: the library's numbers and their weighted average
EvaluateWithRagas(results) ==
    Metrics(results.context_precision, results.faithfulness, results.answer_correctness,
            results.context_relevancy,
            (25 * results.context_precision + 25 * results.faithfulness
               + 25 * results.answer_correctness + 25 * results.context_relevancy) \div 100,
            "ragas", "")

\* where an exception may be raised inside evaluate_rag_quality
Faults == {"none", "backend", "insights", "recommendations"}

\* str(e) of the exception raised there
ErrorMessage(fault) == fault

\* _create_fallback_result
CreateFallbackResult(error) == Metrics(0, 0, 0, 0, 0, "error_fallback", error)

\* an exception that leaves evaluate_rag_quality
Raised == [Metrics(0, 0, 0, 0, 0, "none", "") EXCEPT !.raised = TRUE]

\* mutant: a failing library backend is answered by the heuristic backend
EvaluateRagQuality_HeuristicsOnFailure(query, context, response, ground_truth, env) ==
    IF env.fault = "backend" /\ env.metrics_available
    THEN EvaluateWithFallback(query, context, response, ground_truth)
    ELSE IF env.fault # "none" THEN CreateFallbackResult(ErrorMessage(env.fault))
    ELSE IF env.metrics_available THEN EvaluateWithRagas(env.results)
    ELSE EvaluateWithFallback(query, context, response, ground_truth)

\* mutant: the insights are generated outside the try block
EvaluateRagQuality_InsightsUnguarded(query, context, response, ground_truth, env) ==
    IF env.fault = "insights" THEN Raised
    ELSE IF env.fault # "none" THEN CreateFallbackResult(ErrorMessage(env.fault))
    ELSE IF env.metrics_available THEN EvaluateWithRagas(env.results)
    ELSE EvaluateWithFallback(query, context, response, ground_truth)

\* evaluate_rag_quality: the backend, the insights and the recommendations
\* run inside one try whose except clause builds the fallback result; env
\* says which backend the process has and where an exception is raised
EvaluateRagQuality(query, context, response, ground_truth, env) ==
    IF env.fault # "none" THEN CreateFallbackResult(ErrorMessage(env.fault))
    ELSE IF env.metrics_available THEN EvaluateWithRagas(env.results)
    ELSE EvaluateWithFallback(query, context, response, ground_truth)

\* the backends and faults one evaluation may meet
Environments ==
    [metrics_available : BOOLEAN, results : RagasResults, fault : Faults]

\* no evaluation was asked for yet
NoEvaluation ==
    [pc |-> "idle", query |-> "", context |-> <<>>, response |-> "",
     ground_truth |-> NoGroundTruth, fault |-> "none",
     result |-> Metrics(0, 0, 0, 0, 0, "none", ""), dict |-> "none"]

\* ------------------------------------------------------------------ state
VARIABLES
    pc,      \* where the request is: the graph node about to run, or the caller waiting
    state,   \* the RAGState the graph threads through its nodes
    http,    \* what query_endpoint answered: "none", "200" or "500"
    tool,    \* the frame of search_internet
    rr,      \* the frame of one RerankingService.rerank_results call
    hist,    \* history: what was invoked and what the LLM answered
    evaluation,  \* the evaluate_rag_quality call of the request and its result
    embedder,    \* the module global _model of the embedder, and how often it was built
    threads,     \* the request threads of the concurrent runs
    calls,       \* the activation records of their rerank_results calls
    service,     \* the RAGASEvaluationService instance and what its calls returned
    db,          \* the users and quiz_sessions collections, and today's date
    callers      \* the callers of get_or_create_today_session

vars == <<pc, state, http, tool, rr, hist, evaluation, embedder, threads, calls, service,
          db, callers>>

\* texts the intent-classification call may answer (after strip().lower())
IntentTexts == {"how_to", "the intent is factual"}

\* a hit of the vector store as the graph keeps it in state["context"]
Hit(q) == [question |-> q, relevance_score |-> NoValue, rerank_position |-> NoValue]

AbsentResponse ==
    [keys |-> {}, text |-> "", model |-> "None", questions |-> <<>>, explanation |-> "absent"]

NoContentResponse ==
    [keys |-> {"text", "model", "metadata"}, text |-> NoContentText, model |-> "None",
     questions |-> <<>>, explanation |-> "absent"]

\* no LLM answer yet
NoPass == [kind |-> "none", wellformed |-> FALSE, matched |-> 0, unmatched |-> FALSE,
           given |-> <<>>, clean |-> FALSE, failed |-> FALSE]

\* the frame of rerank_results while no call is active; sem and int record
\* what the LLM answered to the semantic and the intent pass of the call
IdleFrame ==
    [pc |-> "idle", strategy |-> "none", results |-> <<>>, objs |-> <<>>,
     semantic_results |-> <<>>, intent_results |-> <<>>, intent |-> "none",
     ret |-> <<>>, caught |-> FALSE, sem |-> NoPass, int |-> NoPass]

\* what one LLM answer says, read off the answer itself: how it fails, and
\* the score its last entry for each candidate gives; clean says that every
\* entry is an object and every entry naming a candidate has a numeric
\* score, failed that the pass left through its except clause
PassInfo(outcome, objs) ==
    LET parsed == ExtractJson(outcome.text)
        items == parsed.items
        naming(i) == {j \in 1..Len(items) :
                         items[j].kind = "obj" /\ items[j].position = objs[i].position}
        last(S) == CHOOSE j \in S : \A k \in S : j >= k
    IN [kind |-> IF outcome.raises THEN "raise"
                 ELSE IF ~parsed.ok THEN "unparseable"
                 ELSE IF parsed.kind # "array" THEN parsed.kind
                 ELSE "array",
        wellformed |-> \A j \in 1..Len(items) :
                           items[j].kind = "obj" /\ items[j].score # NonNumeric,
        matched |-> Cardinality({j \in 1..Len(items) : items[j].kind = "obj"
                        /\ \E i \in 1..Len(objs) : items[j].position = objs[i].position}),
        unmatched |-> \E j \in 1..Len(items) : items[j].kind = "obj"
                        /\ \A i \in 1..Len(objs) : items[j].position # objs[i].position,
        given |-> [i \in 1..Len(objs) |->
                      IF naming(i) = {} THEN NoValue
                      ELSE IF items[last(naming(i))].score = NoValue THEN 0
                      ELSE items[last(naming(i))].score],
        clean |-> \A j \in 1..Len(items) :
                      /\ items[j].kind = "obj"
                      /\ (\E i \in 1..Len(objs) : items[j].position = objs[i].position)
                             => items[j].score # NonNumeric,
        failed |-> RerankPass(outcome, objs).failed]

\* _model = None, never built
NoEmbedder == [model |-> NoValue, built |-> 0]

\* what an LLM call answered, before it was made
NoAnswer == [raises |-> FALSE, text |-> <<>>]

\* a request thread that does not exist
NoThread ==
    [pc |-> "none", strategy |-> "none", new |-> NoValue, handle |-> NoValue,
     context |-> <<>>, sem |-> NoAnswer, int |-> NoAnswer, response |-> AbsentResponse]

\* RAGASEvaluationService.__init__: the backend is read from RAGAS_AVAILABLE
\* into metrics_available; results is the history of what the calls on
\* the instance met and returned
RagasServiceInit(ragas_available) ==
    [metrics_available |-> ragas_available, faults |-> <<>>, results |-> <<>>]

\* the evaluation service when no run looks at it
NoService == [metrics_available |-> FALSE, faults |-> <<>>, results |-> <<>>]

\* the request threads a run has
NThreads == 2
Threads == 1..NThreads

\* no user document, no session document
NoUser == [email |-> "none", topic |-> "none", start_date |-> NoValue]
NoSession == [email |-> "none", day |-> NoValue, topic |-> "none"]

Emails == {"as4195@gmail.com", "nobody@gmail.com"}
Topics == {"Polity", "History"}

\* the collections as the module finds them, empty, on day 0
EmptyDb == [today |-> 0, users |-> [email \in Emails |-> NoUser], quiz_sessions |-> EmptyBag]

\* a caller outside get_or_create_today_session
IdleCaller ==
    [pc |-> "idle", email |-> "none", day |-> NoValue, topic |-> "none",
     result |-> NoSession, inserted |-> 0, n |-> 0]

\* the threads that call get_or_create_today_session
Callers == {"first", "second"}

\* one request, not yet received
RequestIdle ==
    /\ db = EmptyDb
    /\ callers = [c \in Callers |-> IdleCaller]
    /\ pc = "idle"
    /\ state = [use_llm |-> FALSE, enable_reranking |-> FALSE,
                reranking_strategy |-> "semantic_relevance", has_embedding |-> FALSE,
                context |-> <<>>, response |-> AbsentResponse]
    /\ http = "none"
    /\ tool = [num_results |-> NoValue, ret |-> <<>>]
    /\ rr = IdleFrame
    /\ hist = [rerank_calls |-> 0, rerank_llm_calls |-> 0, gen_llm_calls |-> 0,
               gen_llm_failed |-> FALSE, hits |-> NoValue,
               stages |-> <<>>, gen_text |-> "none",
               incoming |-> "none", incoming_now |-> "none", reranked |-> NoValue]

Init ==
    /\ RequestIdle
    /\ evaluation = NoEvaluation
    /\ embedder = NoEmbedder
    /\ threads = [t \in Threads |-> NoThread]
    /\ calls = [t \in Threads |-> IdleFrame]
    /\ service = NoService

\* ------------------------------------------------ RerankingService
\* mutant: a strategy name that is not known raises in the dispatch
BeginRerank_RejectsUnknown(results, strategy) ==
    IF results = <<>>
    THEN [IdleFrame EXCEPT !.pc = "returned", !.strategy = strategy]
    ELSE IF strategy \notin {"semantic_relevance", "query_intent", "hybrid"}
    THEN [IdleFrame EXCEPT !.pc = "returned", !.strategy = strategy,
                           !.results = results, !.ret = results, !.caught = TRUE]
    ELSE [IdleFrame EXCEPT
            !.pc = IF strategy = "query_intent" THEN "classify" ELSE "semantic",
            !.strategy = strategy,
            !.results = results,
            !.objs = [i \in 1..Len(results) |-> SearchResult(results[i])]]

\* rerank_results up to the strategy dispatch
BeginRerank(results, strategy) ==
    IF results = <<>>
    THEN [IdleFrame EXCEPT !.pc = "returned", !.strategy = strategy]
    ELSE [IdleFrame EXCEPT
            !.pc = IF strategy = "query_intent" THEN "classify" ELSE "semantic",
            !.strategy = strategy,
            !.results = results,
            !.objs = [i \in 1..Len(results) |-> SearchResult(results[i])]]

\* mutant: hybrid gives up after a failed semantic pass
AfterSemantic_StopsOnFailure(strategy, failed) ==
    IF strategy = "hybrid" /\ ~failed THEN "classify" ELSE "convert"

\* where the call goes after the semantic pass: on to the intent pass
\* under hybrid, whatever the pass did, and to the conversion otherwise
AfterSemantic(strategy, failed) ==
    IF strategy = "hybrid" THEN "classify" ELSE "convert"

\* _semantic_relevance_reranking: one LLM call
SemanticPass ==
    /\ rr.pc = "semantic"
    /\ \E outcome \in LLMOutcomes :
         LET r == RerankPass(outcome, rr.objs)
         IN rr' = [rr EXCEPT !.objs = r.objs, !.semantic_results = r.list,
                      !.sem = PassInfo(outcome, rr.objs),
                      !.pc = AfterSemantic(rr.strategy, r.failed)]
    /\ hist' = [hist EXCEPT !.rerank_llm_calls = @ + 1]
    /\ UNCHANGED <<pc, state, http, tool, evaluation, embedder, threads, calls, service, db, callers>>

\* _analyze_query_intent: one LLM call, "factual" when it raises
AnalyzeQueryIntent ==
    /\ rr.pc = "classify"
    /\ \E raises \in BOOLEAN, text \in IntentTexts :
         rr' = [rr EXCEPT !.intent = IF raises THEN "factual" ELSE text,
                   !.pc = "intent"]
    /\ hist' = [hist EXCEPT !.rerank_llm_calls = @ + 1]
    /\ UNCHANGED <<pc, state, http, tool, evaluation, embedder, threads, calls, service, db, callers>>

\* the rest of _query_intent_reranking: one LLM call
IntentPass ==
    /\ rr.pc = "intent"
    /\ \E outcome \in LLMOutcomes :
         LET r == RerankPass(outcome, rr.objs)
         IN rr' = [rr EXCEPT !.objs = r.objs, !.intent_results = r.list,
                      !.int = PassInfo(outcome, rr.objs),
                      !.intent = "none", !.pc = "convert"]
    /\ hist' = [hist EXCEPT !.rerank_llm_calls = @ + 1]
    /\ UNCHANGED <<pc, state, http, tool, evaluation, embedder, threads, calls, service, db, callers>>

\* the end of rerank_results: the hybrid combination when that is the
\* strategy, the conversion back to dicts, and the except clause that
\* returns the dicts it was given
FinishRerank(f) ==
    LET h == HybridCombine(f.objs, f.semantic_results, f.intent_results)
        raised == f.strategy = "hybrid" /\ h.raised
        objs == IF f.strategy = "hybrid" THEN h.objs ELSE f.objs
        reranked == IF f.strategy = "hybrid" THEN h.list
                    ELSE IF f.strategy = "query_intent" THEN f.intent_results
                    ELSE f.semantic_results
    IN [f EXCEPT !.pc = "returned", !.objs = objs, !.caught = raised,
                 !.ret = IF raised THEN f.results ELSE ConvertBack(objs, reranked)]

RerankReturn ==
    /\ rr.pc = "convert"
    /\ rr' = FinishRerank(rr)
    /\ UNCHANGED <<pc, state, http, tool, hist, evaluation, embedder, threads, calls, service, db, callers>>

\* --------------------------------------------------------- the /query graph
\* mutant: the update is made on the dict itself, and the dict is returned
Spread_OnTheDict(d, updated) == [source |-> updated, copy |-> updated]

\* {**d, key: value, ...} and {**d} followed by assignments to the new
\* dict: copy is the new dict, source is what d holds afterwards
Spread(d, updated) == [source |-> d, copy |-> updated]

\* the order the builder adds the nodes in
Nodes == <<"embed_query", "search_qdrant", "rerank_results", "generate_response">>

\* mutant: the edge out of embed_query leads past the retrieval
NextNode_SkipsRetrieval(node) ==
    IF node = "embed_query" THEN "rerank_results"
    ELSE IF node = "search_qdrant" THEN "rerank_results"
    ELSE IF node = "rerank_results" THEN "generate_response"
    ELSE "graph_end"

\* set_entry_point / add_edge of build_rag_graph; END is "graph_end"
NextNode(node) ==
    IF node = "embed_query" THEN "search_qdrant"
    ELSE IF node = "search_qdrant" THEN "rerank_results"
    ELSE IF node = "rerank_results" THEN "generate_response"
    ELSE "graph_end"

\* texts the generation LLM may answer with
GenTexts == {"modi.",
             "the overall theme is the government, because modi is the leader. the context of the latest news is policy."}

\* response_payload before the LLM is consulted
ResponsePayload(context) ==
    [keys |-> {"questions", "model", "metadata"}, text |-> "", model |-> "None",
     questions |-> context, explanation |-> "absent"]

\* mutant: the explanation is a fixed text, not the answer of the LLM
WithExplanation_Fixed(payload, model_type, content) ==
    [payload EXCEPT !.keys = @ \cup {"explanation"}, !.model = model_type,
                    !.explanation = "modi."]

\* the three assignments after llm.invoke
WithExplanation(payload, model_type, content) ==
    [payload EXCEPT !.keys = @ \cup {"explanation"}, !.model = model_type,
                    !.explanation = content]

\* query_endpoint up to rag_graph.invoke(inputs)
QueryEndpoint ==
    /\ pc = "idle"
    /\ \E use_llm \in BOOLEAN, enable_reranking \in BOOLEAN, strategy \in Strategies :
         state' = [state EXCEPT !.use_llm = use_llm,
                      !.enable_reranking = enable_reranking,
                      !.reranking_strategy = strategy]
    /\ pc' = Nodes[1]
    /\ UNCHANGED <<http, tool, rr, hist, evaluation, embedder, threads, calls, service, db, callers>>

\* get_embedder run without interruption: the model is built when _model is None
GetEmbedder(e) ==
    IF e.model = NoValue THEN [model |-> e.built + 1, built |-> e.built + 1] ELSE e

\* embed_query_node; loading the model or encoding the query may raise,
\* which is fatal to the request
EmbedQueryNode ==
    /\ pc = "embed_query"
    /\ \E outcome \in {"ok", "load_raises", "encode_raises"} :
         LET returned == Spread(state, [state EXCEPT !.has_embedding = TRUE])
         IN /\ embedder' = IF outcome = "load_raises" THEN embedder
                           ELSE GetEmbedder(embedder)
            /\ IF outcome = "ok"
               THEN /\ pc' = NextNode("embed_query")
                    /\ state' = returned.copy
                    /\ hist' = [hist EXCEPT !.stages = Append(@, "embed_query"),
                                   !.incoming = state, !.incoming_now = returned.source]
               ELSE /\ pc' = "graph_raised"
                    /\ hist' = [hist EXCEPT !.stages = Append(@, "embed_query"),
                                   !.incoming = state, !.incoming_now = state]
                    /\ UNCHANGED state
    /\ UNCHANGED <<http, tool, rr, evaluation, threads, calls, service, db, callers>>

\* search_qdrant_node: the hits in descending similarity, or the fixed
\* "no relevant content" response when there is none
SearchQdrantNode ==
    /\ pc = "search_qdrant"
    /\ \E raises \in BOOLEAN, n \in 0..MaxHits :
         LET returned ==
               Spread(state,
                      IF n = 0
                      THEN [state EXCEPT !.context = <<>>, !.response = NoContentResponse]
                      ELSE [state EXCEPT !.context = [i \in 1..n |-> Hit(i)]])
         IN IF raises
            THEN /\ pc' = "graph_raised"
                 /\ hist' = [hist EXCEPT !.stages = Append(@, "search_qdrant"),
                                !.incoming = state, !.incoming_now = state]
                 /\ UNCHANGED state
            ELSE /\ pc' = NextNode("search_qdrant")
                 /\ hist' = [hist EXCEPT !.hits = n, !.stages = Append(@, "search_qdrant"),
                                !.incoming = state, !.incoming_now = returned.source]
                 /\ state' = returned.copy
    /\ UNCHANGED <<http, tool, rr, evaluation, embedder, threads, calls, service, db, callers>>

\* "Convert context to reranking format"
ToSearchResults(context) ==
    [i \in 1..Len(context) |-> Dict(context[i].question, i, NoValue, NoValue)]

\* mutant: the empty context is not checked
SkipRerank_FlagOnly(st) == ~st.enable_reranking

\* mutant: the flag is not checked
SkipRerank_ContextOnly(st) == st.context = <<>>

\* if not state.get("enable_reranking") or not state.get("context")
SkipRerank(st) == ~st.enable_reranking \/ st.context = <<>>

\* rerank_results_node up to the call of the service: the early return,
\* the import of the global service failing, or the call
RerankNodeEnter ==
    /\ pc = "rerank_results"
    /\ IF SkipRerank(state)
       THEN /\ pc' = NextNode("rerank_results")
            /\ hist' = [hist EXCEPT !.stages = Append(@, "rerank_results"),
                           !.incoming = state, !.incoming_now = state]
            /\ UNCHANGED rr
       ELSE \E import_raises \in BOOLEAN :
              IF import_raises
              THEN /\ pc' = NextNode("rerank_results")
                   /\ hist' = [hist EXCEPT !.stages = Append(@, "rerank_results"),
                                  !.incoming = state, !.incoming_now = state]
                   /\ UNCHANGED rr
              ELSE /\ pc' = "rerank_call"
                   /\ rr' = BeginRerank(ToSearchResults(state.context),
                                        state.reranking_strategy)
                   /\ hist' = [hist EXCEPT !.rerank_calls = @ + 1,
                                  !.stages = Append(@, "rerank_results"),
                                  !.incoming = state, !.incoming_now = state]
    /\ UNCHANGED <<state, http, tool, evaluation, embedder, threads, calls, service, db, callers>>

\* "Convert back to original format": each returned dict is mapped to the
\* hit at its position; a dict without relevance_score raises KeyError
RECURSIVE MapBack(_, _)
MapBack(reranked_results, context) ==
    IF reranked_results = <<>> THEN [raised |-> FALSE, list |-> <<>>]
    ELSE LET reranked == Head(reranked_results)
             rest == MapBack(Tail(reranked_results), context)
         IN IF ~(1 <= reranked.position /\ reranked.position <= Len(context))
            THEN rest
            ELSE IF reranked.relevance_score = NoValue
            THEN [raised |-> TRUE, list |-> <<>>]
            ELSE IF rest.raised THEN rest
            ELSE [raised |-> FALSE,
                  list |-> <<Spread(context[reranked.position],
                                     [context[reranked.position] EXCEPT
                                        !.relevance_score = reranked.relevance_score,
                                        !.rerank_position = reranked.rerank_position]).copy>>
                           \o rest.list]

\* reranked_context.sort(key=lambda x: x.get("rerank_position", 0)): stable, ascending
RECURSIVE InsertAsc(_, _)
InsertAsc(sorted, x) ==
    IF sorted = <<>> THEN <<x>>
    ELSE IF Head(sorted).rerank_position <= x.rerank_position
         THEN <<Head(sorted)>> \o InsertAsc(Tail(sorted), x)
         ELSE <<x>> \o sorted

RECURSIVE SortByRerankPosition(_)
SortByRerankPosition(list) ==
    IF list = <<>> THEN <<>>
    ELSE InsertAsc(SortByRerankPosition(SubSeq(list, 1, Len(list) - 1)), list[Len(list)])

\* the fallback of the node when nothing was mapped
FallbackContext(context) ==
    [i \in 1..Len(context) |->
        Spread(context[i], [context[i] EXCEPT !.relevance_score = FallbackScore(i - 1),
                                              !.rerank_position = i]).copy]

\* what the hits of the incoming context hold after the mapping loop, which
\* stops at the first dict without relevance_score
RECURSIVE MappedOriginals(_, _)
MappedOriginals(reranked_results, context) ==
    IF reranked_results = <<>> THEN context
    ELSE LET reranked == Head(reranked_results)
         IN IF ~(1 <= reranked.position /\ reranked.position <= Len(context))
            THEN MappedOriginals(Tail(reranked_results), context)
            ELSE IF reranked.relevance_score = NoValue THEN context
            ELSE MappedOriginals(Tail(reranked_results),
                    [context EXCEPT ![reranked.position] =
                        Spread(@, [@ EXCEPT
                                     !.relevance_score = reranked.relevance_score,
                                     !.rerank_position = reranked.rerank_position]).source])

\* what the hits of the incoming context hold when rerank_results_node
\* returns: after the mapping loop and, when nothing was mapped, the
\* fallback loop
ContextLeftBehind(context, reranked_results) ==
    LET m == MapBack(reranked_results, context)
        mapped == MappedOriginals(reranked_results, context)
    IN IF m.raised \/ m.list # <<>> THEN mapped
       ELSE [i \in 1..Len(mapped) |->
               Spread(mapped[i], [mapped[i] EXCEPT !.relevance_score = FallbackScore(i - 1),
                                                   !.rerank_position = i]).source]

\* mutant: the fallback is taken whenever fewer hits were mapped than retrieved
RerankedContext_FallbackWhenShort(context, reranked_results) ==
    LET m == MapBack(reranked_results, context)
    IN IF m.raised THEN context
       ELSE IF Len(m.list) < Len(context) THEN FallbackContext(context)
       ELSE SortByRerankPosition(m.list)

\* mutant: without the fallback of the node
RerankedContext_NoFallback(context, reranked_results) ==
    LET m == MapBack(reranked_results, context)
    IN IF m.raised THEN context ELSE SortByRerankPosition(m.list)

\* the context rerank_results_node leaves, given what the service returned
RerankedContext(context, reranked_results) ==
    LET m == MapBack(reranked_results, context)
    IN IF m.raised THEN context
       ELSE IF m.list = <<>> THEN FallbackContext(context)
       ELSE SortByRerankPosition(m.list)

\* rerank_results_node from the return of the service on; the frame of the
\* call is gone once its result is taken
RerankNodeReturn ==
    /\ pc = "rerank_call"
    /\ rr.pc = "returned"
    /\ LET left == [state EXCEPT !.context = ContextLeftBehind(state.context, rr.ret)]
           reranked_context == RerankedContext(state.context, rr.ret)
       IN /\ state' = Spread(state, [state EXCEPT !.context = reranked_context]).copy
          /\ hist' = [hist EXCEPT !.reranked = Len(rr.ret), !.incoming_now =
                         Spread(left, [left EXCEPT !.context = reranked_context]).source]
    /\ rr' = IdleFrame
    /\ pc' = NextNode("rerank_results")
    /\ UNCHANGED <<http, tool, evaluation, embedder, threads, calls, service, db, callers>>

\* generate_response_node; route_llm or llm.invoke raising leaves the node
\* through no handler
GenerateResponseNode ==
    /\ pc = "generate_response"
    /\ IF state.context = <<>>
       THEN /\ pc' = NextNode("generate_response")
            /\ hist' = [hist EXCEPT !.stages = Append(@, "generate_response"),
                           !.incoming = state, !.incoming_now = state]
            /\ UNCHANGED state
       ELSE IF ~state.use_llm
       THEN LET returned == Spread(state, [state EXCEPT
                                 !.response = ResponsePayload(state.context)])
            IN /\ pc' = NextNode("generate_response")
               /\ state' = returned.copy
               /\ hist' = [hist EXCEPT !.stages = Append(@, "generate_response"),
                              !.incoming = state, !.incoming_now = returned.source]
       ELSE \E route_raises \in BOOLEAN, invoke_raises \in BOOLEAN, content \in GenTexts :
              LET returned == Spread(state, [state EXCEPT !.response =
                         WithExplanation(ResponsePayload(state.context), "gemini", content)])
              IN IF route_raises
                 THEN /\ pc' = "graph_raised"
                      /\ hist' = [hist EXCEPT !.gen_llm_failed = TRUE,
                                     !.stages = Append(@, "generate_response"),
                                     !.incoming = state, !.incoming_now = state]
                      /\ UNCHANGED state
                 ELSE IF invoke_raises
                 THEN /\ pc' = "graph_raised"
                      /\ hist' = [hist EXCEPT !.gen_llm_calls = @ + 1,
                                     !.gen_llm_failed = TRUE,
                                     !.stages = Append(@, "generate_response"),
                                     !.incoming = state, !.incoming_now = state]
                      /\ UNCHANGED state
                 ELSE /\ pc' = NextNode("generate_response")
                      /\ hist' = [hist EXCEPT !.gen_llm_calls = @ + 1,
                                     !.gen_text = content,
                                     !.stages = Append(@, "generate_response"),
                                     !.incoming = state, !.incoming_now = returned.source]
                      /\ state' = returned.copy
    /\ UNCHANGED <<http, tool, rr, evaluation, embedder, threads, calls, service, db, callers>>

\* str(response_data) of the "no relevant content" payload
NoContentRepr ==
    "{'text': \"Sorry, I couldn't find relevant content to answer this question.\", 'model': None, 'metadata': {}}"

\* "Generate response text for evaluation"
ResponseText(st) ==
    IF st.use_llm /\ "explanation" \in st.response.keys THEN st.response.explanation
    ELSE IF "questions" \in st.response.keys /\ st.response.questions # <<>>
    THEN Corpus[st.response.questions[1].question]
    ELSE IF st.response.keys = {} THEN "{}"
    ELSE NoContentRepr

\* the query and the ground_truth a request may carry
RequestQueries == {"what is modi", "government news"}
RequestGroundTruths == {NoGroundTruth, GroundTruth("modi is the leader")}

\* query_endpoint after rag_graph.invoke: the evaluation when the request
\* asks for one (its own try block turns a raising evaluation into an
\* error entry), then the response, or HTTP 500 from the outer except
\* clause; query, enable_evaluation and ground_truth are fields of the
\* request that are first read here
QueryEndpointReturn ==
    /\ pc \in {"graph_end", "graph_raised"}
    /\ IF pc = "graph_raised"
       THEN http' = "500" /\ UNCHANGED evaluation
       ELSE /\ http' = "200"
            /\ \E enable_evaluation \in BOOLEAN, query \in RequestQueries,
                  ground_truth \in RequestGroundTruths, env \in Environments :
                 IF ~enable_evaluation
                 THEN evaluation' = [NoEvaluation EXCEPT !.pc = "skipped"]
                 ELSE LET result == EvaluateRagQuality(query, state.context,
                                        ResponseText(state), ground_truth, env)
                      IN evaluation' =
                           [pc |-> "returned", query |-> query, context |-> state.context,
                            response |-> ResponseText(state), ground_truth |-> ground_truth,
                            fault |-> env.fault, result |-> result,
                            dict |-> IF result.raised THEN "error" ELSE "metrics"]
    /\ pc' = "done"
    /\ UNCHANGED <<state, tool, rr, hist, embedder, threads, calls, service, db, callers>>

\* --------------------------------------------------------- search_internet
\* candidate lists of the web search: distinct positions in any order
ToolInputs ==
    {s \in UNION {[1..n -> 1..MaxHits] : n \in 1..MaxHits} :
        \A i, j \in 1..Len(s) : i # j => s[i] # s[j]}

\* search_internet with enable_reranking, up to the call of the service
SearchInternet ==
    /\ pc = "idle"
    /\ \E positions \in ToolInputs, strategy \in Strategies :
         rr' = BeginRerank([i \in 1..Len(positions) |->
                               Dict(i, positions[i], NoValue, NoValue)], strategy)
    /\ hist' = [hist EXCEPT !.rerank_calls = @ + 1]
    /\ pc' = "tool_call"
    /\ UNCHANGED <<state, http, tool, evaluation, embedder, threads, calls, service, db, callers>>

\* reranked_results[:num_results]
Truncate(list, num_results) ==
    SubSeq(list, 1, IF Len(list) < num_results THEN Len(list) ELSE num_results)

\* return reranked_results[:num_results]; num_results is the caller's
\* argument, first used here
SearchInternetReturn ==
    /\ pc = "tool_call"
    /\ rr.pc = "returned"
    /\ \E num_results \in {1, MaxHits} :
         tool' = [num_results |-> num_results, ret |-> Truncate(rr.ret, num_results)]
    /\ rr' = IdleFrame
    /\ pc' = "done"
    /\ UNCHANGED <<state, http, hist, evaluation, embedder, threads, calls, service, db, callers>>

Next ==
    \/ QueryEndpoint
    \/ EmbedQueryNode
    \/ SearchQdrantNode
    \/ RerankNodeEnter
    \/ SemanticPass
    \/ AnalyzeQueryIntent
    \/ IntentPass
    \/ RerankReturn
    \/ RerankNodeReturn
    \/ GenerateResponseNode
    \/ QueryEndpointReturn
    \/ SearchInternet
    \/ SearchInternetReturn

Spec == Init /\ [][Next]_vars

\* ------------------------------------------------ concurrent requests
\* query_endpoint is a plain def: the server runs each request in a thread
\* of its pool, so several requests run the graph at once. Every request
\* here asks for reranking and no LLM explanation and retrieves MaxHits
\* hits.

\* what the rerank LLM answers in these runs: it raises, or it ranks the
\* second hit over the first
ConcOutcomes ==
    {[raises |-> TRUE, text |-> <<>>],
     [raises |-> FALSE, text |-> <<Tok("lb"), Obj(2, 80), Obj(1, 20), Tok("rb")>>]}

ConcStrategies == {"semantic_relevance", "hybrid"}

ConcInit ==
    /\ RequestIdle
    /\ evaluation = NoEvaluation
    /\ embedder = NoEmbedder
    /\ threads = [t \in Threads |-> [NoThread EXCEPT !.pc = "start"]]
    /\ calls = [t \in Threads |-> IdleFrame]
    /\ service = NoService

\* mutant: the objects of a call are kept on the service singleton
CallFrame_OnService(t) == 1

\* the activation record a thread's rerank_results call works on:
\* search_results and the lists of the passes are locals of the call
CallFrame(t) == t

\* query_endpoint up to the first node of the graph
ThreadQuery(t) ==
    /\ threads[t].pc = "start"
    /\ \E strategy \in ConcStrategies :
         threads' = [threads EXCEPT ![t].pc = "get_check", ![t].strategy = strategy]
    /\ UNCHANGED <<pc, state, http, tool, rr, hist, evaluation, embedder, calls, service, db, callers>>

\* get_embedder: if _model is None
GetEmbedderCheck(t) ==
    /\ threads[t].pc = "get_check"
    /\ threads' = [threads EXCEPT ![t].pc =
                      IF embedder.model = NoValue THEN "get_construct" ELSE "get_return"]
    /\ UNCHANGED <<pc, state, http, tool, rr, hist, evaluation, embedder, calls, service, db, callers>>

\* get_embedder: SentenceTransformer("all-MiniLM-L6-v2")
GetEmbedderConstruct(t) ==
    /\ threads[t].pc = "get_construct"
    /\ embedder' = [embedder EXCEPT !.built = @ + 1]
    /\ threads' = [threads EXCEPT ![t].pc = "get_assign", ![t].new = embedder.built + 1]
    /\ UNCHANGED <<pc, state, http, tool, rr, hist, evaluation, calls, service, db, callers>>

\* get_embedder: _model = ...
GetEmbedderAssign(t) ==
    /\ threads[t].pc = "get_assign"
    /\ embedder' = [embedder EXCEPT !.model = threads[t].new]
    /\ threads' = [threads EXCEPT ![t].pc = "get_return"]
    /\ UNCHANGED <<pc, state, http, tool, rr, hist, evaluation, calls, service, db, callers>>

\* get_embedder: return _model
GetEmbedderReturn(t) ==
    /\ threads[t].pc = "get_return"
    /\ threads' = [threads EXCEPT ![t].pc = "search_qdrant", ![t].handle = embedder.model]
    /\ UNCHANGED <<pc, state, http, tool, rr, hist, evaluation, embedder, calls, service, db, callers>>

\* search_qdrant_node
ThreadSearchQdrant(t) ==
    /\ threads[t].pc = "search_qdrant"
    /\ threads' = [threads EXCEPT ![t].pc = "rerank_results",
                                  ![t].context = [i \in 1..MaxHits |-> Hit(i)]]
    /\ UNCHANGED <<pc, state, http, tool, rr, hist, evaluation, embedder, calls, service, db, callers>>

\* rerank_results_node calling the service, up to the strategy dispatch
ThreadRerankEnter(t) ==
    /\ threads[t].pc = "rerank_results"
    /\ LET f == BeginRerank(ToSearchResults(threads[t].context), threads[t].strategy)
       IN /\ calls' = [calls EXCEPT ![CallFrame(t)] = f]
          /\ threads' = [threads EXCEPT ![t].pc = f.pc]
    /\ UNCHANGED <<pc, state, http, tool, rr, hist, evaluation, embedder, service, db, callers>>

\* _semantic_relevance_reranking in the thread
ThreadSemanticPass(t) ==
    /\ threads[t].pc = "semantic"
    /\ \E outcome \in ConcOutcomes :
         LET r == RerankPass(outcome, calls[CallFrame(t)].objs)
         IN /\ calls' = [calls EXCEPT ![CallFrame(t)].objs = r.objs,
                                      ![CallFrame(t)].semantic_results = r.list]
            /\ threads' = [threads EXCEPT ![t].sem = outcome,
                              ![t].pc = AfterSemantic(threads[t].strategy, r.failed)]
    /\ UNCHANGED <<pc, state, http, tool, rr, hist, evaluation, embedder, service, db, callers>>

\* _analyze_query_intent in the thread
ThreadAnalyzeQueryIntent(t) ==
    /\ threads[t].pc = "classify"
    /\ threads' = [threads EXCEPT ![t].pc = "intent"]
    /\ UNCHANGED <<pc, state, http, tool, rr, hist, evaluation, embedder, calls, service, db, callers>>

\* the rest of _query_intent_reranking in the thread
ThreadIntentPass(t) ==
    /\ threads[t].pc = "intent"
    /\ \E outcome \in ConcOutcomes :
         LET r == RerankPass(outcome, calls[CallFrame(t)].objs)
         IN /\ calls' = [calls EXCEPT ![CallFrame(t)].objs = r.objs,
                                      ![CallFrame(t)].intent_results = r.list]
            /\ threads' = [threads EXCEPT ![t].int = outcome, ![t].pc = "convert"]
    /\ UNCHANGED <<pc, state, http, tool, rr, hist, evaluation, embedder, service, db, callers>>

\* the end of rerank_results and the rest of rerank_results_node
ThreadRerankReturn(t) ==
    /\ threads[t].pc = "convert"
    /\ threads' = [threads EXCEPT ![t].pc = "generate_response",
                      ![t].context = RerankedContext(threads[t].context,
                                         FinishRerank(calls[CallFrame(t)]).ret)]
    /\ UNCHANGED <<pc, state, http, tool, rr, hist, evaluation, embedder, calls, service, db, callers>>

\* generate_response_node without use_llm, and the answer of the endpoint
ThreadGenerateResponse(t) ==
    /\ threads[t].pc = "generate_response"
    /\ threads' = [threads EXCEPT ![t].pc = "done",
                      ![t].response = ResponsePayload(threads[t].context)]
    /\ UNCHANGED <<pc, state, http, tool, rr, hist, evaluation, embedder, calls, service, db, callers>>

ConcNext ==
    \E t \in Threads :
        \/ ThreadQuery(t)
        \/ GetEmbedderCheck(t)
        \/ GetEmbedderConstruct(t)
        \/ GetEmbedderAssign(t)
        \/ GetEmbedderReturn(t)
        \/ ThreadSearchQdrant(t)
        \/ ThreadRerankEnter(t)
        \/ ThreadSemanticPass(t)
        \/ ThreadAnalyzeQueryIntent(t)
        \/ ThreadIntentPass(t)
        \/ ThreadRerankReturn(t)
        \/ ThreadGenerateResponse(t)

ConcSpec == ConcInit /\ [][ConcNext]_vars

\* ------------------------------------------- the evaluation on its own
\* the arguments evaluate_rag_quality is called with
Queries == {"what is modi", "is", "", "government news"}
Responses == {"", "modi is the leader", "the latest government news and information",
              "the is", "{}", NoContentRepr} \cup GenTexts
             \cup {"the leader of the government is modi, because of the vote."}
GroundTruths == {NoGroundTruth, GroundTruth(""), GroundTruth("the"),
                 GroundTruth("modi is the leader"), GroundTruth("government information.")}
Contexts == UNION {[1..n -> {Hit(q) : q \in 1..Len(Corpus)}] : n \in 0..MaxHits}

EvalInit ==
    /\ RequestIdle
    /\ embedder = NoEmbedder
    /\ threads = [t \in Threads |-> NoThread]
    /\ calls = [t \in Threads |-> IdleFrame]
    /\ service = NoService
    /\ \E query \in Queries, context \in Contexts, response \in Responses,
          ground_truth \in GroundTruths :
         evaluation = [NoEvaluation EXCEPT !.pc = "called", !.query = query,
                           !.context = context, !.response = response,
                           !.ground_truth = ground_truth]

\* one call of evaluate_rag_quality
EvaluateRagQualityCall ==
    /\ evaluation.pc = "called"
    /\ \E env \in Environments :
         LET result == EvaluateRagQuality(evaluation.query, evaluation.context,
                           evaluation.response, evaluation.ground_truth, env)
         IN evaluation' = [evaluation EXCEPT !.pc = "returned", !.fault = env.fault,
                               !.result = result,
                               !.dict = IF result.raised THEN "error" ELSE "metrics"]
    /\ UNCHANGED <<pc, state, http, tool, rr, hist, embedder, threads, calls, service, db, callers>>

EvalNext == EvaluateRagQualityCall

EvalSpec == EvalInit /\ [][EvalNext]_vars

\* ------------------------------------- several calls on one service
\* how many evaluate_rag_quality calls a run makes on the instance
MaxCalls == 2

ServiceContexts == {<<>>, <<Hit(1)>>, <<Hit(2), Hit(1)>>}

ServiceInit ==
    /\ RequestIdle
    /\ evaluation = NoEvaluation
    /\ embedder = NoEmbedder
    /\ threads = [t \in Threads |-> NoThread]
    /\ calls = [t \in Threads |-> IdleFrame]
    /\ \E ragas_available \in BOOLEAN : service = RagasServiceInit(ragas_available)

\* one evaluate_rag_quality call on the instance; the backend is the one
\* the instance has
ServiceEvaluate ==
    /\ Len(service.results) < MaxCalls
    /\ \E query \in RequestQueries, context \in ServiceContexts,
          response \in {"modi is the leader", "the is"},
          ground_truth \in RequestGroundTruths,
          results \in RagasResults, fault \in Faults :
         LET env == [metrics_available |-> service.metrics_available,
                     results |-> results, fault |-> fault]
             result == EvaluateRagQuality(query, context, response, ground_truth, env)
         IN service' = [service EXCEPT !.faults = Append(@, fault),
                                       !.results = Append(@, result)]
    /\ UNCHANGED <<pc, state, http, tool, rr, hist, evaluation, embedder, threads, calls, db, callers>>

ServiceNext == ServiceEvaluate

ServiceSpec == ServiceInit /\ [][ServiceNext]_vars

\* ------------------------------------------------------ quiz sessions
\* how many calls a caller makes, and how many days pass
MaxSessionCalls == 2
MaxDay == 1

\* quiz_sessions_collection.find({"email": email, "day": day})
SessionsOf(email, day) ==
    {session \in BagToSet(db.quiz_sessions) : session.email = email /\ session.day = day}

\* how many documents of quiz_sessions have that email and day
CountSessions(email, day) ==
    LET found == SessionsOf(email, day)
    IN IF found = {} THEN 0
       ELSE CopiesIn(CHOOSE session \in found : TRUE, db.quiz_sessions)
            + Cardinality(found) - 1

\* create_or_update_user: an unknown user is inserted with today as the
\* start of the goal; a known one is left as it is
CreateOrUpdateUser ==
    /\ \E email \in Emails, goal_topic \in Topics :
         /\ db.users[email] = NoUser
         /\ db' = [db EXCEPT !.users[email] =
                      [email |-> email, topic |-> goal_topic, start_date |-> db.today]]
    /\ UNCHANGED <<pc, state, http, tool, rr, hist, evaluation, embedder, threads, calls,
                   service, callers>>

\* datetime.utcnow().date() moves on
NextDay ==
    /\ db.today < MaxDay
    /\ db' = [db EXCEPT !.today = @ + 1]
    /\ UNCHANGED <<pc, state, http, tool, rr, hist, evaluation, embedder, threads, calls,
                   service, callers>>

\* a caller enters get_or_create_today_session(email)
CallGetOrCreate(c) ==
    /\ callers[c].pc \in {"idle", "returned", "raised"}
    /\ callers[c].n < MaxSessionCalls
    /\ \E email \in Emails :
         callers' = [callers EXCEPT ![c] = [IdleCaller EXCEPT !.pc = "get_user",
                                               !.email = email, !.n = callers[c].n + 1]]
    /\ UNCHANGED <<pc, state, http, tool, rr, hist, evaluation, embedder, threads, calls,
                   service, db>>

\* user = get_user(email); ValueError when there is none; day and topic
GetUser(c) ==
    /\ callers[c].pc = "get_user"
    /\ LET user == db.users[callers[c].email]
       IN callers' = IF user = NoUser
                     THEN [callers EXCEPT ![c].pc = "raised"]
                     ELSE [callers EXCEPT ![c].pc = "find_one",
                                          ![c].day = db.today - user.start_date,
                                          ![c].topic = user.topic]
    /\ UNCHANGED <<pc, state, http, tool, rr, hist, evaluation, embedder, threads, calls,
                   service, db>>

\* existing = quiz_sessions_collection.find_one(...); if existing: return existing
FindExisting(c) ==
    /\ callers[c].pc = "find_one"
    /\ LET found == SessionsOf(callers[c].email, callers[c].day)
       IN callers' = IF found = {}
                     THEN [callers EXCEPT ![c].pc = "create_quiz_session"]
                     ELSE [callers EXCEPT ![c].pc = "returned",
                                          ![c].result = CHOOSE session \in found : TRUE]
    /\ UNCHANGED <<pc, state, http, tool, rr, hist, evaluation, embedder, threads, calls,
                   service, db>>

\* create_quiz_session: insert_one and return the session
CreateQuizSession(c) ==
    /\ callers[c].pc = "create_quiz_session"
    /\ LET session == [email |-> callers[c].email, day |-> callers[c].day,
                       topic |-> callers[c].topic]
       IN /\ db' = [db EXCEPT !.quiz_sessions = @ (+) SetToBag({session})]
          /\ callers' = [callers EXCEPT ![c].pc = "returned", ![c].result = session,
                                         ![c].inserted = @ + 1]
    /\ UNCHANGED <<pc, state, http, tool, rr, hist, evaluation, embedder, threads, calls,
                   service>>

SessionInit == Init

SessionNext ==
    \/ CreateOrUpdateUser
    \/ NextDay
    \/ \E c \in Callers :
          \/ CallGetOrCreate(c)
          \/ GetUser(c)
          \/ FindExisting(c)
          \/ CreateQuizSession(c)

SessionSpec == SessionInit /\ [][SessionNext]_vars

\* ------------------------------------------------------------------ claims
UsesSemantic(f) == f.strategy # "query_intent"
UsesIntent(f) == f.strategy \in {"query_intent", "hybrid"}

\* the answer to the one rerank pass of a strategy that is not hybrid
Answer(f) == IF f.strategy = "query_intent" THEN f.int ELSE f.sem

\* the same candidates in the same order, with the same length
SameCandidates(out, in) ==
    /\ Len(out) = Len(in)
    /\ \A i \in 1..Len(in) : out[i].title = in[i].title /\ out[i].position = in[i].position

\* the answer is an array of objects with numeric scores
PassOk(a) == a.kind = "array" /\ a.wellformed

Score0(x) == IF x = NoValue THEN 0 ELSE x

\* the candidates (indexes of the input list) some pass of the call scored
Scored(f) ==
    {i \in 1..Len(f.results) :
        \/ UsesSemantic(f) /\ f.sem.given[i] # NoValue
        \/ UsesIntent(f) /\ f.int.given[i] # NoValue}

\* C1: every item rerank_results returns is an input candidate: its
\* position (and the title it carries) is that of some candidate of the
\* input, for every strategy and every LLM behaviour.
C1_PositionPreservation ==
    rr.pc = "returned" =>
        \A k \in 1..Len(rr.ret) : \E i \in 1..Len(rr.results) :
            /\ rr.results[i].position = rr.ret[k].position
            /\ rr.results[i].title = rr.ret[k].title

\* a call whose input positions are not 1..n returned an item although the
\* LLM also named a position that no candidate has
C1_Witness ==
    /\ rr.pc = "returned"
    /\ rr.results[1].position # 1
    /\ rr.sem.unmatched
    /\ Len(rr.ret) >= 1

C3_ZeroUsableReturnsOriginal ==
    (/\ rr.pc = "returned"
     /\ Len(rr.results) > 0
     /\ UsesSemantic(rr) => (PassOk(rr.sem) /\ rr.sem.matched = 0)
     /\ UsesIntent(rr) => (PassOk(rr.int) /\ rr.int.matched = 0))
    => SameCandidates(rr.ret, rr.results)

\* C4: under semantic_relevance or query_intent, when the answer is an
\* array of well-formed entries, the output holds one item per entry that
\* names a candidate, the candidates in it are exactly those the answer
\* names, each carries the score the answer gives it (its last entry),
\* the scores do not increase along the output and rerank_position is the
\* 1-based index.
C4_ExactlyTheScored ==
    (/\ rr.pc = "returned"
     /\ rr.strategy \in {"semantic_relevance", "query_intent"}
     /\ PassOk(Answer(rr)))
    => /\ Len(rr.ret) = Answer(rr).matched
       /\ \A i \in 1..Len(rr.results) :
            (Answer(rr).given[i] # NoValue)
                <=> \E k \in 1..Len(rr.ret) : rr.ret[k].position = rr.results[i].position
       /\ \A k \in 1..Len(rr.ret) : \E i \in 1..Len(rr.results) :
            /\ rr.results[i].position = rr.ret[k].position
            /\ rr.results[i].title = rr.ret[k].title
            /\ rr.ret[k].relevance_score = Answer(rr).given[i]
       /\ \A k \in 1..Len(rr.ret) : rr.ret[k].rerank_position = k
       /\ \A k \in 1..(Len(rr.ret) - 1) :
            rr.ret[k].relevance_score >= rr.ret[k + 1].relevance_score

\* the second candidate was scored above the first and came out first
C4_Witness ==
    /\ rr.pc = "returned"
    /\ rr.strategy = "semantic_relevance"
    /\ PassOk(rr.sem)
    /\ Len(rr.results) >= 2
    /\ Len(rr.ret) = 2
    /\ rr.ret[1].position = rr.results[2].position
    /\ rr.ret[2].position = rr.results[1].position
    /\ rr.ret[1].relevance_score > rr.ret[2].relevance_score

\* C5 (as claimed): under hybrid, when both passes answer with well-formed
\* arrays, every output item carries 0.7*s + 0.3*t, s and t being the
\* scores the semantic and the intent answer give the candidate (0.0 when
\* the answer does not name it).
C5_HybridWeightedScore ==
    (/\ rr.pc = "returned"
     /\ rr.strategy = "hybrid"
     /\ PassOk(rr.sem)
     /\ PassOk(rr.int))
    => \A k \in 1..Len(rr.ret) : \E i \in 1..Len(rr.results) :
         /\ rr.results[i].position = rr.ret[k].position
         /\ rr.ret[k].relevance_score =
              WeightedCombination(Score0(rr.sem.given[i]), Score0(rr.int.given[i]))

\* an LLM behaviour C6 lists as a failure: the call raising, text with no
\* JSON, JSON that is no array, an entry that is no object, a score that
\* is no number
PassFails(a) ==
    \/ a.kind \in {"raise", "unparseable", "emptyobj", "num"}
    \/ a.kind = "array" /\ ~a.wellformed

\* C6 (as claimed): when the LLM behaves in one of those ways in every
\* rerank pass of the call, rerank_results returns the input candidates in
\* their original order.
C6_FailureReturnsOriginalOrder ==
    (/\ rr.pc = "returned"
     /\ UsesSemantic(rr) => PassFails(rr.sem)
     /\ UsesIntent(rr) => PassFails(rr.int))
    => SameCandidates(rr.ret, rr.results)

\* C7: once retrieval has returned no hit, the response is the fixed
\* "no relevant content" payload with model None, the reranking service
\* and the LLMs are never invoked, and the request ends without an error.
C7_EmptyRetrievalShortCircuit ==
    hist.hits = 0 =>
        /\ state.context = <<>>
        /\ state.response = NoContentResponse
        /\ hist.rerank_calls = 0
        /\ hist.rerank_llm_calls = 0
        /\ hist.gen_llm_calls = 0
        /\ rr.pc = "idle"
        /\ pc # "graph_raised"
        /\ pc = "done" => http = "200"

\* a request with reranking and the LLM both asked for ended on an empty retrieval
C7_Witness ==
    /\ hist.hits = 0
    /\ pc = "done"
    /\ state.enable_reranking
    /\ state.use_llm

\* the rerank stage hands over: the step of rerank_results_node that takes
\* the result of the service
StageReturns == pc = "rerank_call" /\ pc' = "generate_response"

\* C8 (as claimed): when the answers parse and score only some of the
\* retrieved candidates, every retrieved candidate is in the context the
\* rerank stage leaves.
C8_UnscoredKept ==
    [][(/\ StageReturns
        /\ UsesSemantic(rr) => PassOk(rr.sem)
        /\ UsesIntent(rr) => PassOk(rr.int)
        /\ Scored(rr) # {}
        /\ Scored(rr) # 1..Len(rr.results))
       => \A i \in 1..hist.hits : \E k \in 1..Len(state'.context) :
              state'.context[k].question = i]_vars

\* C8 (amended): under a strategy that is not hybrid, when the answer is a
\* well-formed array that scores some but not all retrieved candidates,
\* the context the rerank stage leaves holds exactly the scored
\* candidates, each with the score the answer gives it; the unscored ones
\* are dropped.
C8_OnlyScoredKept ==
    [][(/\ StageReturns
        /\ rr.strategy # "hybrid"
        /\ PassOk(Answer(rr))
        /\ Scored(rr) # {}
        /\ Scored(rr) # 1..Len(rr.results))
       => /\ {state'.context[k].question : k \in 1..Len(state'.context)} = Scored(rr)
          /\ \A k \in 1..Len(state'.context) :
               /\ state'.context[k].relevance_score
                    = Answer(rr).given[state'.context[k].question]
               /\ state'.context[k].rerank_position = k]_vars

\* the stage left one of two retrieved hits, the second, with the LLM's score
C8_Witness ==
    /\ pc = "generate_response"
    /\ state.enable_reranking
    /\ state.reranking_strategy = "semantic_relevance"
    /\ hist.rerank_calls = 1
    /\ hist.hits = 2
    /\ Len(state.context) = 1
    /\ state.context[1].question = 2
    /\ state.context[1].relevance_score = 80

\* C9 (as claimed): after a rerank stage that called the reranking service
\* on a non-empty retrieval, every candidate of the context has a numeric
\* relevance_score.
C9_EveryCandidateScored ==
    (/\ pc = "generate_response"
     /\ state.enable_reranking
     /\ hist.hits > 0
     /\ hist.rerank_calls = 1)
    => \A k \in 1..Len(state.context) : state.context[k].relevance_score # NoValue

\* C10 (as claimed): when the generation LLM cannot be constructed or its
\* invoke raises, the request still ends without an error and the response
\* is the payload without explanation, its questions being the context.
C10_GenerationFailureDegrades ==
    (pc = "done" /\ hist.gen_llm_failed)
    => /\ http = "200"
       /\ state.response.keys = {"questions", "model", "metadata"}
       /\ state.response.questions = state.context

\* C11: for a non-empty context the generate stage ends with
\* response.questions equal to the context; with use_llm false it has made
\* no LLM call and the response has model None and no explanation; with
\* use_llm true and the call succeeding it has invoked the LLM exactly once
\* and response.explanation is the text the LLM returned.
C11_GenerateContract ==
    (pc = "graph_end" /\ state.context # <<>>)
    => /\ state.response.questions = state.context
       /\ ~state.use_llm =>
            /\ hist.gen_llm_calls = 0
            /\ state.response.model = "None"
            /\ "explanation" \notin state.response.keys
       /\ state.use_llm =>
            /\ hist.gen_llm_calls = 1
            /\ "explanation" \in state.response.keys
            /\ state.response.explanation = hist.gen_text

\* the LLM answered "a thematic insight" over a reranked context
C11_Witness ==
    /\ pc = "graph_end"
    /\ state.use_llm
    /\ hist.rerank_calls = 1
    /\ Len(state.context) = 2
    /\ hist.gen_llm_calls = 1
    /\ state.response.explanation # "modi."

IsPrefix(s, t) == Len(s) <= Len(t) /\ \A i \in 1..Len(s) : s[i] = t[i]

\* the stages a run of the graph has started are the first ones of the
\* fixed order, each once; the reranking service is called at most once,
\* only with enable_reranking and a non-empty retrieval, and it is active
\* only while rerank is the last stage started
C12_Order ==
    /\ IsPrefix(hist.stages, Nodes)
    /\ http = "200" => hist.stages = Nodes
    /\ hist.stages # <<>> =>
         /\ hist.rerank_calls <= 1
         /\ hist.rerank_calls = 1 =>
              /\ state.enable_reranking
              /\ hist.hits > 0
              /\ Len(hist.stages) >= 3
         /\ rr.pc # "idle" => hist.stages = SubSeq(Nodes, 1, 3)

\* the guard of some action of the request holds: a node is about to run,
\* the endpoint is about to answer, or the service call has a step left
HasStep ==
    \/ pc \in {"embed_query", "search_qdrant", "rerank_results", "generate_response",
               "graph_end", "graph_raised"}
    \/ /\ pc \in {"rerank_call", "tool_call"}
       /\ rr.pc \in {"semantic", "classify", "intent", "convert", "returned"}

\* C12: every run of the pipeline executes its stages in the order embed,
\* retrieve, rerank, generate, each at most once, and then terminates: a
\* run that has not answered always has a step to take, and no stage is
\* started twice; the reranking service is invoked only when
\* enable_reranking is true and the retrieval was non-empty, after
\* retrieval and before generation.
C12_FixedOrderAndTermination ==
    /\ C12_Order
    /\ (pc \notin {"idle", "tool_call", "done"}) => HasStep

\* a request that called the reranking service ran all four stages
C12_Witness ==
    /\ pc = "done"
    /\ http = "200"
    /\ hist.stages = Nodes
    /\ hist.rerank_calls = 1
    /\ hist.rerank_llm_calls = 3

\* C13 (as claimed): when every rerank pass of the stage fails (the LLM call
\* raises, the answer cannot be parsed, or an entry raises after others
\* were processed), the context leaving the rerank stage is the context
\* that entered it, with no relevance_score and no rerank_position.
C13_FailedStageLeavesStateUnchanged ==
    [][(/\ StageReturns
        /\ UsesSemantic(rr) => rr.sem.failed
        /\ UsesIntent(rr) => rr.int.failed)
       => state'.context = state.context]_vars

\* C18: under semantic_relevance or query_intent, when the answer is an
\* array of objects of which one names no candidate and those that name a
\* candidate have numeric scores, the pass does not fail and the output
\* holds exactly the candidates the other entries name, each with the
\* score of its own entry.
C18_UnmatchedEntryDropped ==
    (/\ rr.pc = "returned"
     /\ rr.strategy \in {"semantic_relevance", "query_intent"}
     /\ Answer(rr).kind = "array"
     /\ Answer(rr).clean
     /\ Answer(rr).unmatched)
    => /\ ~Answer(rr).failed
       /\ ~rr.caught
       /\ Len(rr.ret) = Answer(rr).matched
       /\ \A i \in 1..Len(rr.results) :
            (Answer(rr).given[i] # NoValue)
                <=> \E k \in 1..Len(rr.ret) : rr.ret[k].position = rr.results[i].position
       /\ \A k \in 1..Len(rr.ret) : \E i \in 1..Len(rr.results) :
            /\ rr.results[i].position = rr.ret[k].position
            /\ rr.ret[k].relevance_score = Answer(rr).given[i]

\* the answer named a position no candidate has, with a score that is no
\* number, before it scored the second candidate
C18_Witness ==
    /\ rr.pc = "returned"
    /\ rr.strategy = "query_intent"
    /\ rr.int.kind = "array"
    /\ rr.int.unmatched
    /\ ~rr.int.wellformed
    /\ rr.int.clean
    /\ Len(rr.results) = 2
    /\ Len(rr.ret) = 1
    /\ rr.ret[1].position = rr.results[2].position
    /\ rr.ret[1].relevance_score = 80

\* C19 (as claimed): the intent the query_intent pass puts in its prompt
\* is one of the six categories, whatever the classification call
\* returned.
C19_IntentInTaxonomy ==
    rr.pc = "intent" => rr.intent \in Intents

\* the LLM calls one rerank_results call makes under a strategy
CallsOf(strategy) ==
    IF strategy = "hybrid" THEN 3 ELSE IF strategy = "query_intent" THEN 2 ELSE 1

\* C20: a rerank_results call has invoked the LLM, when it returns, 1 time
\* under semantic_relevance, 2 times under query_intent and 3 times
\* under hybrid, whatever failed on the way: no call is repeated, and a
\* failed semantic pass does not keep the intent pass from running.
C20_FixedNumberOfCalls ==
    /\ rr.pc = "returned" => hist.rerank_llm_calls = CallsOf(rr.strategy)
    /\ rr.pc # "idle" => hist.rerank_llm_calls <= CallsOf(rr.strategy)

\* a hybrid call whose semantic pass failed still made its three calls
C20_Witness ==
    /\ rr.pc = "returned"
    /\ rr.strategy = "hybrid"
    /\ rr.sem.failed
    /\ rr.int.kind = "array"
    /\ hist.rerank_llm_calls = 3

\* the four metrics and the overall score of a result
Scores(result) ==
    {result.context_precision, result.faithfulness, result.answer_correctness,
     result.context_relevancy, result.overall_score}

\* C14: evaluate_rag_quality never raises; when an exception occurs inside
\* it (in the backend, in the insights or in the recommendations) its
\* result has the four metrics and overall_score 0.0, evaluation_method
\* "error_fallback" and the message of the exception; and a /query
\* request whose graph run succeeded answers 200 with the evaluation
\* entry, whatever happened in the evaluation.
C14_EvaluationCrashSafe ==
    evaluation.pc = "returned" =>
        /\ ~evaluation.result.raised
        /\ evaluation.fault # "none" =>
             /\ Scores(evaluation.result) = {0}
             /\ evaluation.result.evaluation_method = "error_fallback"
             /\ evaluation.result.error = ErrorMessage(evaluation.fault)
        /\ evaluation.fault = "none" =>
             evaluation.result.evaluation_method \in {"ragas", "fallback_heuristics"}
        /\ http = "200"
        /\ evaluation.dict = "metrics"

\* a request over a reranked context whose insight generation raised
C14_Witness ==
    /\ pc = "done"
    /\ evaluation.pc = "returned"
    /\ evaluation.fault = "insights"
    /\ hist.rerank_calls = 1
    /\ Len(evaluation.context) = 2
    /\ http = "200"

\* C15: whenever the heuristic path completes, context_precision,
\* faithfulness, answer_correctness, context_relevancy and overall_score
\* all lie in [0.0, 1.0].
C15_FallbackMetricsBounded ==
    (/\ evaluation.pc = "returned"
     /\ evaluation.result.evaluation_method = "fallback_heuristics")
    => \A v \in Scores(evaluation.result) : 0 <= v /\ v <= 100

\* every word of the query is in the context and the bonuses apply on top:
\* precision and relevancy sit at the cap, and so does faithfulness
C15_Witness ==
    /\ evaluation.pc = "returned"
    /\ evaluation.result.evaluation_method = "fallback_heuristics"
    /\ evaluation.query = "government news"
    /\ Len(evaluation.context) = 2
    /\ evaluation.ground_truth.given
    /\ evaluation.result.context_precision = 100
    /\ evaluation.result.context_relevancy = 100
    /\ evaluation.result.faithfulness = 100
    /\ evaluation.result.answer_correctness > 0

\* C16 (as claimed): the embedder model is constructed at most once, and
\* every caller of get_embedder gets the same handle, also when the first
\* calls are made by several request threads at once.
C16_EmbedderInitializedOnce ==
    /\ embedder.built <= 1
    /\ \A t, u \in Threads :
         (threads[t].handle # NoValue /\ threads[u].handle # NoValue)
             => threads[t].handle = threads[u].handle

\* rerank_results run on its own: the passes of the strategy in their
\* order on one private frame, given the answers of the LLM
RerankAlone(results, strategy, sem, int) ==
    LET f0 == BeginRerank(results, strategy)
        s == RerankPass(sem, f0.objs)
        f1 == IF strategy # "query_intent"
              THEN [f0 EXCEPT !.objs = s.objs, !.semantic_results = s.list] ELSE f0
        i == RerankPass(int, f1.objs)
        f2 == IF AfterSemantic(strategy, s.failed) = "classify" \/ strategy = "query_intent"
              THEN [f1 EXCEPT !.objs = i.objs, !.intent_results = i.list] ELSE f1
    IN FinishRerank(f2).ret

\* the context a request has after its rerank stage when it runs alone
ContextAlone(th) ==
    LET hits == [i \in 1..MaxHits |-> Hit(i)]
    IN RerankedContext(hits, RerankAlone(ToSearchResults(hits), th.strategy, th.sem, th.int))

\* C17: requests that run at once through the shared reranking service
\* and the shared graph do not affect each other: the context a request
\* leaves its rerank stage with, and the response it returns, are those
\* it would have alone, given the answers the LLM gave to it.
C17_NoInterference ==
    \A t \in Threads :
        /\ threads[t].pc \in {"generate_response", "done"}
              => threads[t].context = ContextAlone(threads[t])
        /\ threads[t].pc = "done"
              => threads[t].response = ResponsePayload(ContextAlone(threads[t]))

\* two requests were inside rerank_results at once with different answers
\* and ended with different contexts
C17_Witness ==
    /\ threads[1].pc = "done"
    /\ threads[2].pc = "done"
    /\ threads[1].strategy = "hybrid"
    /\ threads[2].strategy = "semantic_relevance"
    /\ threads[1].sem # threads[2].sem
    /\ threads[1].context # threads[2].context

\* the evaluation methods the calls on the instance reported
MethodsSeen == {service.results[i].evaluation_method : i \in 1..Len(service.results)}

\* C21: the backend is fixed when the service is constructed: the calls on
\* one instance never report both "ragas" and "fallback_heuristics", the
\* method reported is the one of the instance's backend, and a call in
\* which the library backend fails returns the zero-valued error result.
C21_BackendChosenOnce ==
    /\ ~({"ragas", "fallback_heuristics"} \subseteq MethodsSeen)
    /\ \A i \in 1..Len(service.results) :
         LET result == service.results[i]
         IN /\ ~result.raised
            /\ result.evaluation_method = "ragas" => service.metrics_available
            /\ result.evaluation_method = "fallback_heuristics"
                  => ~service.metrics_available
            /\ (service.metrics_available /\ service.faults[i] = "backend")
                  => /\ result.evaluation_method = "error_fallback"
                     /\ Scores(result) = {0}

\* the library backend failed in one call and worked in the next
C21_Witness ==
    /\ service.metrics_available
    /\ Len(service.results) = 2
    /\ service.faults = <<"backend", "none">>
    /\ service.results[1].evaluation_method = "error_fallback"
    /\ service.results[2].evaluation_method = "ragas"

\* C22: no stage of the graph changes the state it is given: when a stage
\* has returned (or raised), the state record it received and every hit
\* of its context hold what they held when the stage began.
C22_StagesDoNotMutate ==
    hist.stages # <<>> => hist.incoming_now = hist.incoming

\* the rerank stage returned scored hits and the hits it was given have none
C22_Witness ==
    /\ pc = "generate_response"
    /\ hist.stages[Len(hist.stages)] = "rerank_results"
    /\ state.context # <<>>
    /\ \A i \in 1..Len(state.context) : state.context[i].relevance_score >= 0
    /\ hist.incoming_now.context # <<>>
    /\ \A i \in 1..Len(hist.incoming_now.context) :
          hist.incoming_now.context[i].relevance_score = NoValue

\* what get_or_create_today_session returned or raised, for the callers
\* that are out of it
SessionResultsRight ==
    \A c \in Callers :
        /\ callers[c].pc = "returned"
              => /\ db.users[callers[c].email] # NoUser
                 /\ callers[c].result.email = callers[c].email
                 /\ callers[c].result.day = callers[c].day
                 /\ callers[c].result.topic = db.users[callers[c].email].topic
        /\ callers[c].pc = "raised"
              => callers[c].inserted = 0

\* C23 (as claimed): get_or_create_today_session returns a session with
\* the email, the day number and the goal topic of the user, raises for an
\* unknown email and creates nothing, and the store never holds more than
\* one session for an (email, day), also with concurrent callers.
C23_OneSessionPerUserAndDay ==
    /\ SessionResultsRight
    /\ \A email \in Emails, day \in 0..MaxDay : CountSessions(email, day) <= 1

\* the pass failed because its LLM call raised or its answer did not parse
PassFailedOutright(info) == info.failed /\ info.kind \in {"raise", "unparseable"}

\* the pass went through and gave every candidate a score
PassScoredAll(info) ==
    /\ ~info.failed
    /\ info.kind = "array"
    /\ \A i \in 1..Len(info.given) : info.given[i] # NoValue

\* C24 (as claimed): under hybrid, when one pass fails outright and the
\* other scores every candidate, rerank_results returns every candidate
\* and the combined score counts the failed pass as 0.0: 0.3 * intent
\* score when the semantic pass failed, 0.7 * semantic score when the
\* intent pass failed.
C24_HybridOnePassFailed ==
    (/\ rr.pc = "returned"
     /\ rr.strategy = "hybrid"
     /\ \/ PassFailedOutright(rr.sem) /\ PassScoredAll(rr.int)
        \/ PassScoredAll(rr.sem) /\ PassFailedOutright(rr.int))
    => /\ Len(rr.ret) = Len(rr.results)
       /\ \A i \in 1..Len(rr.results) :
            \E j \in 1..Len(rr.ret) :
                /\ rr.ret[j].position = rr.results[i].position
                /\ rr.ret[j].relevance_score =
                      IF rr.sem.failed
                      THEN WeightedCombination(0, rr.int.given[i])
                      ELSE WeightedCombination(rr.sem.given[i], 0)

\* C25: with enable_reranking false, the rerank stage returns the state it
\* received: the context is the retrieval output in retrieval order, no
\* hit has a relevance_score or a rerank_position, and the stage calls
\* neither the reranking service nor the LLM.
C25_DisabledRerankIsIdentity ==
    (pc = "generate_response" /\ ~state.enable_reranking)
    => /\ state = hist.incoming
       /\ state.context = [i \in 1..hist.hits |-> Hit(i)]
       /\ \A i \in 1..Len(state.context) :
            /\ state.context[i].relevance_score = NoValue
            /\ state.context[i].rerank_position = NoValue
       /\ hist.rerank_calls = 0
       /\ hist.rerank_llm_calls = 0

\* the stage ran over several hits with reranking off
C25_Witness ==
    /\ pc = "generate_response"
    /\ ~state.enable_reranking
    /\ hist.stages[Len(hist.stages)] = "rerank_results"
    /\ hist.hits >= 2
    /\ Len(state.context) = hist.hits

\* max(0.1, 1.0 - 0.1 * i) in hundredths, for the 0-based index i
Decaying(i) == IF 100 - 10 * i > 10 THEN 100 - 10 * i ELSE 10

\* C26: when reranking is on and the service returns no item for a
\* non-empty context, the stage leaves every retrieved hit, in retrieval
\* order, the hit at 0-based index i with relevance_score
\* max(0.1, 1.0 - 0.1 * i) and rerank_position i + 1; the scores do not
\* increase and lie in [0.1, 1.0]; and a stage that called the service
\* never leaves an empty context.
C26_SyntheticScores ==
    (pc = "generate_response" /\ hist.rerank_calls = 1)
    => /\ state.context # <<>>
       /\ hist.reranked = 0
            => /\ Len(state.context) = hist.hits
               /\ \A k \in 1..Len(state.context) :
                    /\ state.context[k].question = k
                    /\ state.context[k].relevance_score = Decaying(k - 1)
                    /\ state.context[k].rerank_position = k
                    /\ state.context[k].relevance_score >= 10
                    /\ state.context[k].relevance_score <= 100
                    /\ k > 1 => state.context[k].relevance_score
                                  <= state.context[k - 1].relevance_score

\* the service returned nothing for the hits and they left the stage
\* with the decaying scores
C26_Witness ==
    /\ pc = "generate_response"
    /\ hist.rerank_calls = 1
    /\ hist.reranked = 0
    /\ hist.hits = MaxHits
    /\ Len(state.context) = MaxHits
    /\ state.context[1].relevance_score = 100
    /\ state.context[2].relevance_score = 90

\* the strategy names the dispatch of rerank_results knows
KnownStrategies == {"semantic_relevance", "query_intent", "hybrid"}

\* C27: a strategy name that is none of the three is no error: the call
\* makes the one LLM call of semantic_relevance, runs no intent pass, and
\* returns what semantic_relevance returns for the same candidates and the
\* same answer.
C27_UnknownStrategyIsSemantic ==
    (rr.pc = "returned" /\ rr.strategy \notin KnownStrategies /\ rr.results # <<>>)
    => /\ hist.rerank_llm_calls = 1
       /\ rr.sem # NoPass
       /\ rr.int = NoPass
       /\ rr.intent_results = <<>>
       /\ ~rr.caught
       /\ rr.ret = FinishRerank([rr EXCEPT !.strategy = "semantic_relevance"]).ret
       /\ rr.ret = ConvertBack(rr.objs, rr.semantic_results)

\* a call with an unknown strategy name returned the candidates in the
\* order of the scores of its one answer
C27_Witness ==
    /\ rr.pc = "returned"
    /\ rr.strategy \notin KnownStrategies
    /\ rr.sem.kind = "array"
    /\ hist.rerank_llm_calls = 1
    /\ Len(rr.results) = 2
    /\ Len(rr.ret) = 2
    /\ rr.ret[1].position = rr.results[2].position
    /\ rr.ret[1].relevance_score > rr.ret[2].relevance_score

\* the context item has no word overlap with the query that counts, and no
\* entity or category keyword together with the query
NothingInCommon(query, ctx) ==
    LET ctx_text == ExtractTextFromContext(ctx)
        query_important == Words(query) \cap LongerThan3
    IN /\ IF query_important # {}
          THEN query_important \cap Words(ctx_text) = {}
          ELSE Words(query) \cap Words(ctx_text) = {}
       /\ ~(ContainsAny(query, PrecisionEntityWords)
             /\ ContainsAny(ctx_text, PrecisionEntityWords))
       /\ ~(ContainsAny(query, PrecisionCategoryQueryWords)
             /\ ContainsAny(ctx_text, PrecisionCategoryContextWords))

\* C28 (as claimed): the topical bonus needs a topical keyword in the
\* query and in the item: for a query without one, a context whose items
\* have nothing in common with the query has fallback context_precision 0.
C28_TopicalBonusNeedsQuery ==
    (/\ evaluation.pc = "returned"
     /\ evaluation.result.evaluation_method = "fallback_heuristics"
     /\ ~ContainsAny(evaluation.query, PrecisionTopicWords)
     /\ \A i \in 1..Len(evaluation.context) :
           NothingInCommon(evaluation.query, evaluation.context[i]))
    => evaluation.result.context_precision = 0

\* the fallback answer_correctness without any phrase bonus: the word
\* overlap and the key-concept bonus
CorrectnessWithoutPhraseBonus(response, truth) ==
    LET response_meaningful == Words(response) \ CorrectnessStopWords
        truth_meaningful == Words(truth) \ CorrectnessStopWords
        base_score == OverlapRatio(truth_meaningful, response_meaningful)
        key_concepts == truth_meaningful \cap LongerThan4
        concept_matches == Cardinality({c \in key_concepts : Contains(response, c)})
    IN IF key_concepts # {} /\ concept_matches > 0
       THEN Min(100, base_score
                       + Min(20, (concept_matches * 20) \div Cardinality(key_concepts)))
       ELSE base_score

\* C29 (as claimed): with a ground truth, a response that contains neither
\* the whole ground truth nor any non-empty '.'-separated sentence of it
\* gets no phrase bonus, also when the ground truth ends with a period.
C29_PartialBonusNeedsSentence ==
    (/\ evaluation.pc = "returned"
     /\ evaluation.result.evaluation_method = "fallback_heuristics"
     /\ evaluation.ground_truth.given
     /\ Words(evaluation.ground_truth.text) \ CorrectnessStopWords # {}
     /\ ~Contains(evaluation.response, evaluation.ground_truth.text)
     /\ \A p \in Features(evaluation.ground_truth.text).phrases \ {""} :
           ~Contains(evaluation.response, p))
    => evaluation.result.answer_correctness
         = CorrectnessWithoutPhraseBonus(evaluation.response, evaluation.ground_truth.text)

\* C30 (as claimed): rerank_results returns no more items than it was
\* given and no candidate twice, and the rerank stage leaves no more
\* candidates in the context than retrieval produced, also when the
\* LLM's array names a position in more than one entry.
C30_NoDuplicatesNoGrowth ==
    /\ rr.pc = "returned"
          => /\ Len(rr.ret) <= Len(rr.results)
             /\ \A j, k \in 1..Len(rr.ret) : rr.ret[j].title = rr.ret[k].title => j = k
    /\ (pc = "generate_response" /\ hist.hits # NoValue)
          => Len(state.context) <= hist.hits

====
